---- MODULE Spec2Model ----
(***************************************************************************)
(* Token-Creator: the SecureToken ledger (burn / reflection / tax split,   *)
(* pooled reflection claims) and the TokenFactory registry.                *)
(*                                                                         *)
(* The pooled ledger is the contract text published by                     *)
(* bot/utils/contractFlattener.js (ERC20 + Ownable + SecureToken).         *)
(* A Solidity transaction is modelled as a pure function on a state        *)
(* record: every internal call threads the record through, a revert sets   *)
(* its err field, and the action commits the record only when err = "".    *)
(***************************************************************************)
EXTENDS Integers, Sequences, FiniteSets, TLC

\* address(0) and address(this); the externally owned accounts.
Zero == "Zero"
This == "This"
Holders == {"O", "A", "W"}
Accounts == Holders \cup {This}
Recipients == Accounts \cup {Zero}
\* type(uint8).max: the width of the three percent parameters.
MaxUint8 == 255

\* type(uint256).max, scaled down so that TLC can reach the overflow cases.
MaxUint256 == 131071
\* Exploration bound: the successful transfers of a non-zero amount explored on
\* one ledger (claims, approvals, views, zero-amount and failing calls are free).
MaxTransfers == 1

VARIABLES
    _balances, _allowances, _totalSupply, _owner,
    taxPercent, taxWallet, REFLECTION_PERCENT, BURN_PERCENT,
    HAS_REFLECTION, HAS_BURN,
    _reflectionClaimed, _totalReflectionDistributed,
    initialSupply, burned, paid, events, last, moves,
    deployedTokens, creatorTokens, tokens, bot

ledgerVars == <<_balances, _allowances, _totalSupply, _owner,
    _reflectionClaimed, _totalReflectionDistributed, burned, paid>>
policyVars == <<taxPercent, taxWallet, REFLECTION_PERCENT, BURN_PERCENT,
    HAS_REFLECTION, HAS_BURN, initialSupply>>
\* The factory: its two collections, and the contracts it deployed (tokens[i]
\* is the contract at address i); bot is the Telegram bot that deploys
\* through the factory (its database, its clock, its running handlers).
factoryVars == <<deployedTokens, creatorTokens, tokens, bot>>
vars == <<ledgerVars, policyVars, events, last, moves, factoryVars>>

\* Exploration bounds of the bot: the ticks of its clock (one tick is five
\* minutes) and the payment records one user opens. Handlers names the
\* owner-wallet messages of that user that are handled at the same time.
MaxTime == 4
MaxPayments == 2
Handlers == {1, 2}

\* config/constants.js: TIMEOUTS.RATE_LIMIT_TOKEN_CREATION is 600000 ms
\* and PAYMENT.TIMEOUT 900000 ms, in ticks of five minutes.
RATE_LIMIT_TOKEN_CREATION == 2
PAYMENT_TIMEOUT == 3

\* The bot before any message: an empty database (no session, no payment,
\* no token row), no listener, no handler running. step "" is the absent
\* session row, paymentId 0 the undefined sessionData.paymentId, and a
\* percentage of 0 one that is not set yet.
NoSession ==
    [step |-> "", paymentId |-> 0, paymentConfirmed |-> FALSE,
     taxPercent |-> 0, reflectionPercent |-> 0, burnPercent |-> 0]
IdleHandler == [pc |-> "idle", paymentId |-> 0]
BotStart(testMode, disableRateLimit) ==
    [TEST_MODE |-> testMode, DISABLE_RATE_LIMIT |-> disableRateLimit,
     now |-> 0, session |-> NoSession, payments |-> <<>>, listening |-> {},
     currentBlock |-> 0, user_tokens |-> <<>>,
     handlers |-> [h \in Handlers |-> IdleHandler]]
NoBot == BotStart(FALSE, FALSE)

(***************************************************************************)
(* Transaction state record.                                               *)
(***************************************************************************)
\* The storage of the token as a record (burned: ghost, value sent to
\* address(0); paid: ghost, the amounts the claims have paid to each holder;
\* ret: the return value; err: the revert reason, "" if none).
Storage ==
    [bal |-> _balances, allow |-> _allowances, ts |-> _totalSupply,
     owner |-> _owner, claimed |-> _reflectionClaimed,
     dist |-> _totalReflectionDistributed, burned |-> burned, paid |-> paid,
     events |-> <<>>, ret |-> 0, err |-> ""]

Revert(st, reason) == IF st.err = "" THEN [st EXCEPT !.err = reason] ELSE st
Emit(st, ev) == IF st.err = "" THEN [st EXCEPT !.events = Append(@, ev)] ELSE st
\* Panic(0x11): checked arithmetic left the uint256 range.
Panic == "Panic(0x11)"

(***************************************************************************)
(* ERC20 (contractFlattener.js, lines 33-155).                             *)
(***************************************************************************)
\* Variant of _update that credits the recipient without debiting the sender.
_update_NoDebit(st, from, to, value) ==
    IF st.err # "" THEN st
    ELSE
      LET s1 == IF from = Zero
                THEN IF st.ts + value > MaxUint256
                     THEN Revert(st, Panic)
                     ELSE [st EXCEPT !.ts = @ + value]
                ELSE IF st.bal[from] < value
                     THEN Revert(st, "ERC20: transfer amount exceeds balance")
                     ELSE st
          s2 == IF s1.err # "" THEN s1
                ELSE IF to = Zero
                     THEN [s1 EXCEPT !.ts = (@ - value) % (MaxUint256 + 1),
                                     !.burned = @ + value]
                     ELSE [s1 EXCEPT !.bal[to] = (@ + value) % (MaxUint256 + 1)]
      IN Emit(s2, [name |-> "Transfer", from |-> from, to |-> to, value |-> value])

\* Variant of _update whose burn leaves the total supply as it was.
_update_BurnKeepsSupply(st, from, to, value) ==
    IF st.err # "" THEN st
    ELSE
      LET s1 == IF from = Zero
                THEN IF st.ts + value > MaxUint256
                     THEN Revert(st, Panic)
                     ELSE [st EXCEPT !.ts = @ + value]
                ELSE IF st.bal[from] < value
                     THEN Revert(st, "ERC20: transfer amount exceeds balance")
                     ELSE [st EXCEPT !.bal[from] = @ - value]
          s2 == IF s1.err # "" THEN s1
                ELSE IF to = Zero
                     THEN [s1 EXCEPT !.burned = @ + value]
                     ELSE [s1 EXCEPT !.bal[to] = (@ + value) % (MaxUint256 + 1)]
      IN Emit(s2, [name |-> "Transfer", from |-> from, to |-> to, value |-> value])

\* Variant of _update without the balance check: the debit wraps.
_update_NoBalanceCheck(st, from, to, value) ==
    IF st.err # "" THEN st
    ELSE
      LET s1 == IF from = Zero
                THEN IF st.ts + value > MaxUint256
                     THEN Revert(st, Panic)
                     ELSE [st EXCEPT !.ts = @ + value]
                ELSE [st EXCEPT !.bal[from] = (@ - value) % (MaxUint256 + 1)]
          s2 == IF s1.err # "" THEN s1
                ELSE IF to = Zero
                     THEN [s1 EXCEPT !.ts = (@ - value) % (MaxUint256 + 1),
                                     !.burned = @ + value]
                     ELSE [s1 EXCEPT !.bal[to] = (@ + value) % (MaxUint256 + 1)]
      IN Emit(s2, [name |-> "Transfer", from |-> from, to |-> to, value |-> value])

_update(st, from, to, value) ==
    IF st.err # "" THEN st
    ELSE
      LET s1 == IF from = Zero
                THEN IF st.ts + value > MaxUint256
                     THEN Revert(st, Panic)
                     ELSE [st EXCEPT !.ts = @ + value]
                ELSE IF st.bal[from] < value
                     THEN Revert(st, "ERC20: transfer amount exceeds balance")
                     ELSE [st EXCEPT !.bal[from] = @ - value]
          s2 == IF s1.err # "" THEN s1
                ELSE IF to = Zero
                     THEN [s1 EXCEPT !.ts = (@ - value) % (MaxUint256 + 1),
                                     !.burned = @ + value]
                     ELSE [s1 EXCEPT !.bal[to] = (@ + value) % (MaxUint256 + 1)]
      IN Emit(s2, [name |-> "Transfer", from |-> from, to |-> to, value |-> value])

\* Variant of _transfer that accepts address(0) as the recipient.
_transfer_NoZeroCheck(st, from, to, value) ==
    IF st.err # "" THEN st
    ELSE IF from = Zero THEN Revert(st, "ERC20: transfer from the zero address")
    ELSE _update(st, from, to, value)

_transfer(st, from, to, value) ==
    IF st.err # "" THEN st
    ELSE IF from = Zero THEN Revert(st, "ERC20: transfer from the zero address")
    ELSE IF to = Zero THEN Revert(st, "ERC20: transfer to the zero address")
    ELSE _update(st, from, to, value)

_mint(st, to, value) ==
    IF st.err # "" THEN st
    ELSE IF to = Zero THEN Revert(st, "ERC20: mint to the zero address")
    ELSE _update(st, Zero, to, value)

_approve(st, owner, spender, value) ==
    IF st.err # "" THEN st
    ELSE IF owner = Zero THEN Revert(st, "ERC20: approve from the zero address")
    ELSE IF spender = Zero THEN Revert(st, "ERC20: approve to the zero address")
    ELSE Emit([st EXCEPT !.allow[owner][spender] = value],
              [name |-> "Approval", owner |-> owner, spender |-> spender, value |-> value])

_spendAllowance(st, owner, spender, value) ==
    IF st.err # "" THEN st
    ELSE
      LET currentAllowance == st.allow[owner][spender]
      IN IF currentAllowance # MaxUint256
         THEN IF currentAllowance < value
              THEN Revert(st, "ERC20: insufficient allowance")
              ELSE _approve(st, owner, spender, currentAllowance - value)
         ELSE st

(***************************************************************************)
(* SecureToken (contractFlattener.js, lines 210-445).                      *)
(***************************************************************************)
\* The fee computation of transfer (lines 272-290): burn on the amount,
\* reflection on the post-burn net, tax on the post-reflection net. Checked
\* arithmetic: overflow of a product and underflow of a difference revert.
\* Variant of the fee computation with flat percentages: reflection and tax
\* are taken on the original amount instead of the running net.
TransferSplit_Flat(sender, amount) ==
    LET doBurn == HAS_BURN /\ sender # Zero
        burnAmount == IF doBurn THEN (amount * BURN_PERCENT) \div 100 ELSE 0
        doReflect == HAS_REFLECTION /\ sender # Zero
        reflectionAmount == IF doReflect THEN (amount * REFLECTION_PERCENT) \div 100 ELSE 0
        doTax == taxPercent > 0 /\ taxWallet # Zero /\ sender # taxWallet
        taxAmount == IF doTax THEN (amount * taxPercent) \div 100 ELSE 0
        net3 == amount - burnAmount - reflectionAmount - taxAmount
        overflow == \/ doBurn /\ amount * BURN_PERCENT > MaxUint256
                    \/ doReflect /\ amount * REFLECTION_PERCENT > MaxUint256
                    \/ doTax /\ amount * taxPercent > MaxUint256
        underflow == net3 < 0
    IN [burnAmount |-> burnAmount, reflectionAmount |-> reflectionAmount,
        taxAmount |-> taxAmount, netAmount |-> net3,
        overflow |-> overflow, underflow |-> underflow]

\* Variant of the fee computation that does not take the tax off the net.
TransferSplit_TaxKept(sender, amount) ==
    LET doBurn == HAS_BURN /\ sender # Zero
        burnAmount == IF doBurn THEN (amount * BURN_PERCENT) \div 100 ELSE 0
        net1 == amount - burnAmount
        doReflect == HAS_REFLECTION /\ sender # Zero
        reflectionAmount == IF doReflect THEN (net1 * REFLECTION_PERCENT) \div 100 ELSE 0
        net2 == net1 - reflectionAmount
        doTax == taxPercent > 0 /\ taxWallet # Zero /\ sender # taxWallet
        taxAmount == IF doTax THEN (net2 * taxPercent) \div 100 ELSE 0
        overflow == \/ doBurn /\ amount * BURN_PERCENT > MaxUint256
                    \/ doReflect /\ net1 * REFLECTION_PERCENT > MaxUint256
                    \/ doTax /\ net2 * taxPercent > MaxUint256
        underflow == net1 < 0 \/ net2 < 0
    IN [burnAmount |-> burnAmount, reflectionAmount |-> reflectionAmount,
        taxAmount |-> taxAmount, netAmount |-> net2,
        overflow |-> overflow, underflow |-> underflow]

\* Variant of TransferSplit that taxes the tax wallet's own transfers.
TransferSplit_TaxesWallet(sender, amount) ==
    LET doBurn == HAS_BURN /\ sender # Zero
        burnAmount == IF doBurn THEN (amount * BURN_PERCENT) \div 100 ELSE 0
        net1 == amount - burnAmount
        doReflect == HAS_REFLECTION /\ sender # Zero
        reflectionAmount == IF doReflect THEN (net1 * REFLECTION_PERCENT) \div 100 ELSE 0
        net2 == net1 - reflectionAmount
        doTax == taxPercent > 0 /\ taxWallet # Zero
        taxAmount == IF doTax THEN (net2 * taxPercent) \div 100 ELSE 0
        net3 == net2 - taxAmount
        overflow == \/ doBurn /\ amount * BURN_PERCENT > MaxUint256
                    \/ doReflect /\ net1 * REFLECTION_PERCENT > MaxUint256
                    \/ doTax /\ net2 * taxPercent > MaxUint256
        underflow == net1 < 0 \/ net2 < 0 \/ net3 < 0
    IN [burnAmount |-> burnAmount, reflectionAmount |-> reflectionAmount,
        taxAmount |-> taxAmount, netAmount |-> net3,
        overflow |-> overflow, underflow |-> underflow]

TransferSplit(sender, amount) ==
    LET doBurn == HAS_BURN /\ sender # Zero
        burnAmount == IF doBurn THEN (amount * BURN_PERCENT) \div 100 ELSE 0
        net1 == amount - burnAmount
        doReflect == HAS_REFLECTION /\ sender # Zero
        reflectionAmount == IF doReflect THEN (net1 * REFLECTION_PERCENT) \div 100 ELSE 0
        net2 == net1 - reflectionAmount
        doTax == taxPercent > 0 /\ taxWallet # Zero /\ sender # taxWallet
        taxAmount == IF doTax THEN (net2 * taxPercent) \div 100 ELSE 0
        net3 == net2 - taxAmount
        overflow == \/ doBurn /\ amount * BURN_PERCENT > MaxUint256
                    \/ doReflect /\ net1 * REFLECTION_PERCENT > MaxUint256
                    \/ doTax /\ net2 * taxPercent > MaxUint256
        underflow == net1 < 0 \/ net2 < 0 \/ net3 < 0
    IN [burnAmount |-> burnAmount, reflectionAmount |-> reflectionAmount,
        taxAmount |-> taxAmount, netAmount |-> net3,
        overflow |-> overflow, underflow |-> underflow]

\* Variant of ApplySplit that emits TokensBurned also for a burn of 0.
ApplySplit_AlwaysAnnouncesBurn(st, sender, to, sp) ==
    LET s1 == Emit(IF sp.burnAmount > 0
                   THEN _update(st, sender, Zero, sp.burnAmount) ELSE st,
                   [name |-> "TokensBurned", from |-> sender, amount |-> sp.burnAmount])
        s2 == IF sp.reflectionAmount > 0
              THEN LET t == _transfer(s1, sender, This, sp.reflectionAmount)
                       u == IF t.err # "" THEN t
                            ELSE IF t.dist + sp.reflectionAmount > MaxUint256
                                 THEN Revert(t, Panic)
                                 ELSE [t EXCEPT !.dist = @ + sp.reflectionAmount]
                   IN Emit(u, [name |-> "ReflectionAdded", holder |-> This,
                               amount |-> sp.reflectionAmount])
              ELSE s1
        s3 == IF sp.taxAmount > 0
              THEN _transfer(s2, sender, taxWallet, sp.taxAmount)
              ELSE s2
        s4 == _transfer(s3, sender, to, sp.netAmount)
    IN Emit(s4, [name |-> "TokensTransferred", from |-> sender, to |-> to,
                 amount |-> sp.netAmount, taxAmount |-> sp.taxAmount])

\* Variant of ApplySplit whose burn step credits the recipient.
ApplySplit_BurnToRecipient(st, sender, to, sp) ==
    LET s1 == IF sp.burnAmount > 0
              THEN Emit(_update(st, sender, to, sp.burnAmount),
                        [name |-> "TokensBurned", from |-> sender, amount |-> sp.burnAmount])
              ELSE st
        s2 == IF sp.reflectionAmount > 0
              THEN LET t == _transfer(s1, sender, This, sp.reflectionAmount)
                       u == IF t.err # "" THEN t
                            ELSE IF t.dist + sp.reflectionAmount > MaxUint256
                                 THEN Revert(t, Panic)
                                 ELSE [t EXCEPT !.dist = @ + sp.reflectionAmount]
                   IN Emit(u, [name |-> "ReflectionAdded", holder |-> This,
                               amount |-> sp.reflectionAmount])
              ELSE s1
        s3 == IF sp.taxAmount > 0
              THEN _transfer(s2, sender, taxWallet, sp.taxAmount)
              ELSE s2
        s4 == _transfer(s3, sender, to, sp.netAmount)
    IN Emit(s4, [name |-> "TokensTransferred", from |-> sender, to |-> to,
                 amount |-> sp.netAmount, taxAmount |-> sp.taxAmount])

\* The movements of transfer (lines 292-310), in the order of the code.
ApplySplit(st, sender, to, sp) ==
    LET s1 == IF sp.burnAmount > 0
              THEN Emit(_update(st, sender, Zero, sp.burnAmount),
                        [name |-> "TokensBurned", from |-> sender, amount |-> sp.burnAmount])
              ELSE st
        s2 == IF sp.reflectionAmount > 0
              THEN LET t == _transfer(s1, sender, This, sp.reflectionAmount)
                       u == IF t.err # "" THEN t
                            ELSE IF t.dist + sp.reflectionAmount > MaxUint256
                                 THEN Revert(t, Panic)
                                 ELSE [t EXCEPT !.dist = @ + sp.reflectionAmount]
                   IN Emit(u, [name |-> "ReflectionAdded", holder |-> This,
                               amount |-> sp.reflectionAmount])
              ELSE s1
        s3 == IF sp.taxAmount > 0
              THEN _transfer(s2, sender, taxWallet, sp.taxAmount)
              ELSE s2
        s4 == _transfer(s3, sender, to, sp.netAmount)
    IN Emit(s4, [name |-> "TokensTransferred", from |-> sender, to |-> to,
                 amount |-> sp.netAmount, taxAmount |-> sp.taxAmount])

\* Variant of transfer that moves a transfer to oneself without fees.
transfer_SelfIsPlain(st, sender, to, amount) ==
    LET sp == TransferSplit(sender, amount)
    IN IF to = sender THEN _transfer(st, sender, to, amount)
       ELSE IF sp.overflow \/ sp.underflow THEN Revert(st, Panic)
       ELSE ApplySplit(st, sender, to, sp)

transfer(st, sender, to, amount) ==
    LET sp == TransferSplit(sender, amount)
    IN IF sp.overflow \/ sp.underflow THEN Revert(st, Panic)
       ELSE ApplySplit(st, sender, to, sp)

\* Variant of the fee computation of transferFrom that takes no burn.
TransferFromSplit_NoBurn(from, amount) ==
    LET doBurn == HAS_BURN /\ from # Zero
        burnAmount == 0
        net1 == amount - burnAmount
        doReflect == HAS_REFLECTION /\ from # Zero
        reflectionAmount == IF doReflect THEN (net1 * REFLECTION_PERCENT) \div 100 ELSE 0
        net2 == net1 - reflectionAmount
        doTax == taxPercent > 0 /\ taxWallet # Zero /\ from # taxWallet
        taxAmount == IF doTax THEN (net2 * taxPercent) \div 100 ELSE 0
        net3 == net2 - taxAmount
        overflow == \/ doBurn /\ amount * BURN_PERCENT > MaxUint256
                    \/ doReflect /\ net1 * REFLECTION_PERCENT > MaxUint256
                    \/ doTax /\ net2 * taxPercent > MaxUint256
        underflow == net1 < 0 \/ net2 < 0 \/ net3 < 0
    IN [burnAmount |-> burnAmount, reflectionAmount |-> reflectionAmount,
        taxAmount |-> taxAmount, netAmount |-> net3,
        overflow |-> overflow, underflow |-> underflow]

\* transferFrom repeats the fee computation of transfer on `from` (lines 317-335).
TransferFromSplit(from, amount) ==
    LET doBurn == HAS_BURN /\ from # Zero
        burnAmount == IF doBurn THEN (amount * BURN_PERCENT) \div 100 ELSE 0
        net1 == amount - burnAmount
        doReflect == HAS_REFLECTION /\ from # Zero
        reflectionAmount == IF doReflect THEN (net1 * REFLECTION_PERCENT) \div 100 ELSE 0
        net2 == net1 - reflectionAmount
        doTax == taxPercent > 0 /\ taxWallet # Zero /\ from # taxWallet
        taxAmount == IF doTax THEN (net2 * taxPercent) \div 100 ELSE 0
        net3 == net2 - taxAmount
        overflow == \/ doBurn /\ amount * BURN_PERCENT > MaxUint256
                    \/ doReflect /\ net1 * REFLECTION_PERCENT > MaxUint256
                    \/ doTax /\ net2 * taxPercent > MaxUint256
        underflow == net1 < 0 \/ net2 < 0 \/ net3 < 0
    IN [burnAmount |-> burnAmount, reflectionAmount |-> reflectionAmount,
        taxAmount |-> taxAmount, netAmount |-> net3,
        overflow |-> overflow, underflow |-> underflow]

\* Variant of transferFrom that spends the net amount, what the recipient
\* receives after the fees, instead of the amount asked for.
transferFrom_SpendsNet(st, spender, from, to, amount) ==
    LET sp == TransferFromSplit(from, amount)
        s0 == _spendAllowance(st, from, spender, sp.netAmount)
    IN IF s0.err # "" THEN s0
       ELSE IF sp.overflow \/ sp.underflow THEN Revert(s0, Panic)
       ELSE ApplySplit(s0, from, to, sp)

transferFrom(st, spender, from, to, amount) ==
    LET s0 == _spendAllowance(st, from, spender, amount)
        sp == TransferFromSplit(from, amount)
    IN IF s0.err # "" THEN s0
       ELSE IF sp.overflow \/ sp.underflow THEN Revert(s0, Panic)
       ELSE ApplySplit(s0, from, to, sp)

\* Ownable (lines 161-204), msg.sender = sender.
_checkOwner(st, sender) ==
    IF st.err # "" THEN st
    ELSE IF st.owner # sender THEN Revert(st, "Ownable: caller is not the owner")
    ELSE st

_transferOwnership(st, newOwner) ==
    IF st.err # "" THEN st
    ELSE Emit([st EXCEPT !.owner = newOwner],
              [name |-> "OwnershipTransferred", from |-> st.owner, to |-> newOwner])

renounceOwnership(st, sender) == _transferOwnership(_checkOwner(st, sender), Zero)

transferOwnership(st, sender, newOwner) ==
    LET c == _checkOwner(st, sender)
    IN IF c.err # "" THEN c
       ELSE IF newOwner = Zero THEN Revert(c, "Ownable: new owner is the zero address")
       ELSE _transferOwnership(c, newOwner)

\* Variant of mint that lets the owner issue tokens.
mint_OwnerMay(st, sender, to, amount) ==
    IF sender = st.owner THEN _mint(st, to, amount)
    ELSE Revert(st, "Minting is permanently disabled")

\* mint, burn and burnFrom (lines 434-444): pure functions that revert.
mint(st, sender, to, amount) == Revert(st, "Minting is permanently disabled")

burn(st, sender, amount) == Revert(st, "Burning is not allowed")

burnFrom(st, sender, account, amount) == Revert(st, "Burning is not allowed")

\* Variant of claimReflectionRewards that pays the whole entitlement, not
\* the entitlement less what was already claimed.
claimReflectionRewards_PaysEntitlement(st, sender) ==
    LET holderBalance == st.bal[sender]
        totalSupply == st.ts
        contractBalance == st.bal[This]
        product == holderBalance * contractBalance
        proportionalReflection == product \div totalSupply
        claimableAmount == proportionalReflection
    IN IF ~HAS_REFLECTION THEN Revert(st, "Reflection is disabled for this token")
       ELSE IF ~(holderBalance > 0) THEN Revert(st, "You must hold tokens to claim reflection")
       ELSE IF ~(totalSupply > 0) THEN Revert(st, "Total supply must be greater than 0")
       ELSE IF ~(contractBalance > 0) THEN Revert(st, "No reflection rewards available")
       ELSE IF product > MaxUint256 THEN Revert(st, Panic)
       ELSE IF ~(claimableAmount > 0) THEN Revert(st, "No reflection rewards to claim")
       ELSE LET s1 == [st EXCEPT !.claimed[sender] = proportionalReflection]
                s2 == _transfer(s1, This, sender, claimableAmount)
                s3 == Emit(s2, [name |-> "ReflectionClaimed", holder |-> sender,
                                amount |-> claimableAmount])
            IN IF s3.err = ""
               THEN [s3 EXCEPT !.ret = claimableAmount,
                               !.paid[sender] = @ + claimableAmount]
               ELSE s3

\* Variant of claimReflectionRewards without the final require: a claim of
\* nothing succeeds.
claimReflectionRewards_NoPositiveCheck(st, sender) ==
    LET holderBalance == st.bal[sender]
        totalSupply == st.ts
        contractBalance == st.bal[This]
        product == holderBalance * contractBalance
        proportionalReflection == product \div totalSupply
        alreadyClaimed == st.claimed[sender]
        claimableAmount == IF proportionalReflection > alreadyClaimed
                           THEN proportionalReflection - alreadyClaimed
                           ELSE 0
    IN IF ~HAS_REFLECTION THEN Revert(st, "Reflection is disabled for this token")
       ELSE IF ~(holderBalance > 0) THEN Revert(st, "You must hold tokens to claim reflection")
       ELSE IF ~(totalSupply > 0) THEN Revert(st, "Total supply must be greater than 0")
       ELSE IF ~(contractBalance > 0) THEN Revert(st, "No reflection rewards available")
       ELSE IF product > MaxUint256 THEN Revert(st, Panic)
       ELSE LET s1 == [st EXCEPT !.claimed[sender] = proportionalReflection]
                s2 == _transfer(s1, This, sender, claimableAmount)
                s3 == Emit(s2, [name |-> "ReflectionClaimed", holder |-> sender,
                                amount |-> claimableAmount])
            IN IF s3.err = ""
               THEN [s3 EXCEPT !.ret = claimableAmount,
                               !.paid[sender] = @ + claimableAmount]
               ELSE s3

\* Variant of claimReflectionRewards that issues the payout as new tokens.
claimReflectionRewards_MintsPayout(st, sender) ==
    LET holderBalance == st.bal[sender]
        totalSupply == st.ts
        contractBalance == st.bal[This]
        product == holderBalance * contractBalance
        proportionalReflection == product \div totalSupply
        alreadyClaimed == st.claimed[sender]
        claimableAmount == IF proportionalReflection > alreadyClaimed
                           THEN proportionalReflection - alreadyClaimed
                           ELSE 0
    IN IF ~HAS_REFLECTION THEN Revert(st, "Reflection is disabled for this token")
       ELSE IF ~(holderBalance > 0) THEN Revert(st, "You must hold tokens to claim reflection")
       ELSE IF ~(totalSupply > 0) THEN Revert(st, "Total supply must be greater than 0")
       ELSE IF ~(contractBalance > 0) THEN Revert(st, "No reflection rewards available")
       ELSE IF product > MaxUint256 THEN Revert(st, Panic)
       ELSE IF ~(claimableAmount > 0) THEN Revert(st, "No reflection rewards to claim")
       ELSE LET s1 == [st EXCEPT !.claimed[sender] = proportionalReflection]
                s2 == _mint(s1, sender, claimableAmount)
                s3 == Emit(s2, [name |-> "ReflectionClaimed", holder |-> sender,
                                amount |-> claimableAmount])
            IN IF s3.err = ""
               THEN [s3 EXCEPT !.ret = claimableAmount,
                               !.paid[sender] = @ + claimableAmount]
               ELSE s3

\* Variant of claimReflectionRewards that records the payout as the mark.
claimReflectionRewards_MarksPayout(st, sender) ==
    LET holderBalance == st.bal[sender]
        totalSupply == st.ts
        contractBalance == st.bal[This]
        product == holderBalance * contractBalance
        proportionalReflection == product \div totalSupply
        alreadyClaimed == st.claimed[sender]
        claimableAmount == IF proportionalReflection > alreadyClaimed
                           THEN proportionalReflection - alreadyClaimed
                           ELSE 0
    IN IF ~HAS_REFLECTION THEN Revert(st, "Reflection is disabled for this token")
       ELSE IF ~(holderBalance > 0) THEN Revert(st, "You must hold tokens to claim reflection")
       ELSE IF ~(totalSupply > 0) THEN Revert(st, "Total supply must be greater than 0")
       ELSE IF ~(contractBalance > 0) THEN Revert(st, "No reflection rewards available")
       ELSE IF product > MaxUint256 THEN Revert(st, Panic)
       ELSE IF ~(claimableAmount > 0) THEN Revert(st, "No reflection rewards to claim")
       ELSE LET s1 == [st EXCEPT !.claimed[sender] = claimableAmount]
                s2 == _transfer(s1, This, sender, claimableAmount)
                s3 == Emit(s2, [name |-> "ReflectionClaimed", holder |-> sender,
                                amount |-> claimableAmount])
            IN IF s3.err = ""
               THEN [s3 EXCEPT !.ret = claimableAmount,
                               !.paid[sender] = @ + claimableAmount]
               ELSE s3

\* Variant of claimReflectionRewards whose entitlement is the holder's whole
\* balance instead of its share of the reserve.
claimReflectionRewards_PaysBalance(st, sender) ==
    LET holderBalance == st.bal[sender]
        totalSupply == st.ts
        contractBalance == st.bal[This]
        proportionalReflection == holderBalance
        alreadyClaimed == st.claimed[sender]
        claimableAmount == IF proportionalReflection > alreadyClaimed
                           THEN proportionalReflection - alreadyClaimed
                           ELSE 0
    IN IF ~HAS_REFLECTION THEN Revert(st, "Reflection is disabled for this token")
       ELSE IF ~(holderBalance > 0) THEN Revert(st, "You must hold tokens to claim reflection")
       ELSE IF ~(totalSupply > 0) THEN Revert(st, "Total supply must be greater than 0")
       ELSE IF ~(contractBalance > 0) THEN Revert(st, "No reflection rewards available")
       ELSE IF ~(claimableAmount > 0) THEN Revert(st, "No reflection rewards to claim")
       ELSE LET s1 == [st EXCEPT !.claimed[sender] = proportionalReflection]
                s2 == _transfer(s1, This, sender, claimableAmount)
                s3 == Emit(s2, [name |-> "ReflectionClaimed", holder |-> sender,
                                amount |-> claimableAmount])
            IN IF s3.err = ""
               THEN [s3 EXCEPT !.ret = claimableAmount,
                               !.paid[sender] = @ + claimableAmount]
               ELSE s3

\* claimReflectionRewards (lines 358-386), msg.sender = sender.
claimReflectionRewards(st, sender) ==
    LET holderBalance == st.bal[sender]
        totalSupply == st.ts
        contractBalance == st.bal[This]
        product == holderBalance * contractBalance
        proportionalReflection == product \div totalSupply
        alreadyClaimed == st.claimed[sender]
        claimableAmount == IF proportionalReflection > alreadyClaimed
                           THEN proportionalReflection - alreadyClaimed
                           ELSE 0
    IN IF ~HAS_REFLECTION THEN Revert(st, "Reflection is disabled for this token")
       ELSE IF ~(holderBalance > 0) THEN Revert(st, "You must hold tokens to claim reflection")
       ELSE IF ~(totalSupply > 0) THEN Revert(st, "Total supply must be greater than 0")
       ELSE IF ~(contractBalance > 0) THEN Revert(st, "No reflection rewards available")
       ELSE IF product > MaxUint256 THEN Revert(st, Panic)
       ELSE IF ~(claimableAmount > 0) THEN Revert(st, "No reflection rewards to claim")
       ELSE LET s1 == [st EXCEPT !.claimed[sender] = proportionalReflection]
                s2 == _transfer(s1, This, sender, claimableAmount)
                s3 == Emit(s2, [name |-> "ReflectionClaimed", holder |-> sender,
                                amount |-> claimableAmount])
            IN IF s3.err = ""
               THEN [s3 EXCEPT !.ret = claimableAmount,
                               !.paid[sender] = @ + claimableAmount]
               ELSE s3

\* getClaimableReflection (lines 388-407): a view, it returns or reverts.
getClaimableReflection(st, holder) ==
    LET holderBalance == st.bal[holder]
        totalSupply == st.ts
        contractBalance == st.bal[This]
        product == holderBalance * contractBalance
        proportionalReflection == product \div totalSupply
        alreadyClaimed == st.claimed[holder]
    IN IF ~HAS_REFLECTION THEN [ret |-> 0, err |-> ""]
       ELSE IF holderBalance = 0 THEN [ret |-> 0, err |-> ""]
       ELSE IF totalSupply = 0 THEN [ret |-> 0, err |-> ""]
       ELSE IF contractBalance = 0 THEN [ret |-> 0, err |-> ""]
       ELSE IF product > MaxUint256 THEN [ret |-> 0, err |-> Panic]
       ELSE [ret |-> IF proportionalReflection > alreadyClaimed
                     THEN proportionalReflection - alreadyClaimed
                     ELSE 0,
             err |-> ""]

\* getPendingReflection (lines 409-432): the same view under its older name.
getPendingReflection(st, holder) ==
    LET holderBalance == st.bal[holder]
        totalSupply == st.ts
        contractBalance == st.bal[This]
        product == holderBalance * contractBalance
        proportionalReflection == product \div totalSupply
        alreadyClaimed == st.claimed[holder]
    IN IF ~HAS_REFLECTION THEN [ret |-> 0, err |-> ""]
       ELSE IF holderBalance = 0 THEN [ret |-> 0, err |-> ""]
       ELSE IF totalSupply = 0 THEN [ret |-> 0, err |-> ""]
       ELSE IF contractBalance = 0 THEN [ret |-> 0, err |-> ""]
       ELSE IF product > MaxUint256 THEN [ret |-> 0, err |-> Panic]
       ELSE [ret |-> IF proportionalReflection > alreadyClaimed
                     THEN proportionalReflection - alreadyClaimed
                     ELSE 0,
             err |-> ""]

(***************************************************************************)
(* Construction (contractFlattener.js, lines 166-171 and 232-268).         *)
(***************************************************************************)
\* Variant of the uint8 addition that wraps instead of reverting.
AddUint8_Unchecked(a, b) == (a + b) % (MaxUint8 + 1)

\* Checked uint8 addition: the sum, or -1 when it leaves the uint8 range.
AddUint8(a, b) == IF a < 0 \/ b < 0 \/ a + b > MaxUint8 THEN -1 ELSE a + b

\* The storage of a contract before its constructor runs.
BlankStorage ==
    [bal |-> [a \in Recipients |-> 0],
     allow |-> [a \in Holders |-> [b \in Holders |-> 0]],
     ts |-> 0, owner |-> Zero,
     claimed |-> [a \in Recipients |-> 0],
     dist |-> 0, burned |-> 0, paid |-> [a \in Recipients |-> 0],
     events |-> <<>>, ret |-> 0, err |-> ""]

\* The constructor: Ownable's check first (base constructors run first),
\* then the requires of SecureToken in the order of the code, then _mint.
constructor(a) ==
    LET feeSum == AddUint8(AddUint8(a.taxPercent, a.reflectionPercent), a.burnPercent)
        st == BlankStorage
    IN IF a.initialOwner = Zero THEN Revert(st, "Ownable: initial owner is the zero address")
       ELSE IF ~(a.taxPercent <= 100) THEN Revert(st, "Tax percent must be <= 100")
       ELSE IF ~(a.reflectionPercent <= 100) THEN Revert(st, "Reflection percent must be <= 100")
       ELSE IF ~(a.burnPercent <= 100) THEN Revert(st, "Burn percent must be <= 100")
       ELSE IF ~(a.initialOwner # Zero) THEN Revert(st, "Owner cannot be zero address")
       ELSE IF ~(a.initialSupply > 0) THEN Revert(st, "Initial supply must be > 0")
       ELSE IF a.taxPercent > 0 /\ a.taxWallet = Zero
            THEN Revert(st, "Tax wallet cannot be zero address when tax > 0")
       ELSE IF feeSum = -1 THEN Revert(st, Panic)
       ELSE IF ~(feeSum <= 100) THEN Revert(st, "Total fees cannot exceed 100%")
       ELSE _mint(Emit([st EXCEPT !.owner = a.initialOwner],
                       [name |-> "OwnershipTransferred", from |-> Zero,
                        to |-> a.initialOwner]),
                  a.initialOwner, a.initialSupply)

(***************************************************************************)
(* The pooled ledger as a state machine.                                   *)
(***************************************************************************)
\* Constructor arguments of one deployment.
Args(supply, tax, wallet, refl, burnPct, enableRefl, enableBurn) ==
    [initialSupply |-> supply, taxPercent |-> tax, taxWallet |-> wallet,
     reflectionPercent |-> refl, burnPercent |-> burnPct,
     enableReflection |-> enableRefl, enableBurn |-> enableBurn,
     initialOwner |-> "O"]

\* The deployments explored.
DeployArgs ==
    {Args(1000, 10, "W", 10, 10, TRUE, TRUE),
     Args(1000, 5, "W", 5, 0, TRUE, FALSE),
     Args(1000, 0, Zero, 0, 100, FALSE, TRUE),
     Args(1000, 0, Zero, 50, 0, TRUE, FALSE),
     Args(7, 50, "O", 50, 0, TRUE, TRUE),
     Args(1000, 0, Zero, 0, 0, FALSE, FALSE)}

\* No operation so far.
\* last: the last call (who: the claimant of a claim, the holder a view asked
\* about), its result ("ok" or the revert reason) and its return value.
NoCall == [op |-> "constructor", who |-> Zero, result |-> "ok", ret |-> 0]

\* The state after the constructor ran with arguments a.
Deploy(a) ==
    LET r == constructor(a)
    IN /\ r.err = ""
       /\ _balances = r.bal
       /\ _allowances = r.allow
       /\ _totalSupply = r.ts
       /\ _owner = r.owner
       /\ _reflectionClaimed = r.claimed
       /\ _totalReflectionDistributed = r.dist
       /\ burned = r.burned
       /\ paid = r.paid
       /\ events = r.events
       /\ taxPercent = a.taxPercent
       /\ taxWallet = a.taxWallet
       /\ REFLECTION_PERCENT = a.reflectionPercent
       /\ BURN_PERCENT = a.burnPercent
       /\ HAS_REFLECTION = a.enableReflection
       /\ HAS_BURN = a.enableBurn
       /\ initialSupply = a.initialSupply
       /\ last = NoCall
       /\ moves = 0
       /\ deployedTokens = <<>>
       /\ creatorTokens = [c \in Holders |-> <<>>]
       /\ tokens = <<>>
       /\ bot = NoBot

Init == \E a \in DeployArgs : Deploy(a)

\* The amounts a caller may pass: nothing, the sender's whole balance, and
\* the largest uint256.
AmountInputs(sender) == {0, _balances[sender], MaxUint256}

\* Variant of Commit that keeps the writes of a reverted transaction.
Commit_KeepsPartial(r) ==
    /\ _balances' = r.bal
    /\ _allowances' = r.allow
    /\ _totalSupply' = r.ts
    /\ _owner' = r.owner
    /\ _reflectionClaimed' = r.claimed
    /\ _totalReflectionDistributed' = r.dist
    /\ burned' = r.burned
    /\ paid' = r.paid
    /\ events' = IF r.err = "" THEN r.events ELSE <<>>
    /\ UNCHANGED <<policyVars, factoryVars>>

\* A transaction ends: its writes are kept when it did not revert, and
\* dropped when it did.
Commit(r) ==
    /\ IF r.err = ""
       THEN /\ _balances' = r.bal
            /\ _allowances' = r.allow
            /\ _totalSupply' = r.ts
            /\ _owner' = r.owner
            /\ _reflectionClaimed' = r.claimed
            /\ _totalReflectionDistributed' = r.dist
            /\ burned' = r.burned
            /\ paid' = r.paid
            /\ events' = r.events
       ELSE /\ UNCHANGED ledgerVars
            /\ events' = <<>>
    /\ UNCHANGED <<policyVars, factoryVars>>

\* Ghost: count the successful transfers of a non-zero amount, up to the bound.
Moved(r, amount) ==
    IF r.err = "" /\ amount > 0
    THEN moves < MaxTransfers /\ moves' = moves + 1
    ELSE moves' = moves

Result(r) == IF r.err = "" THEN "ok" ELSE r.err

Transfer(sender, to, amount) ==
    LET r == transfer(Storage, sender, to, amount)
    IN /\ Commit(r)
       /\ Moved(r, amount)
       /\ last' = [op |-> "transfer", who |-> Zero, result |-> Result(r), ret |-> 0]

TransferFrom(spender, from, to, amount) ==
    LET r == transferFrom(Storage, spender, from, to, amount)
    IN /\ Commit(r)
       /\ Moved(r, amount)
       /\ last' = [op |-> "transferFrom", who |-> Zero, result |-> Result(r), ret |-> 0]

Approve(owner, spender, value) ==
    LET r == _approve(Storage, owner, spender, value)
    IN /\ Commit(r)
       /\ UNCHANGED moves
       /\ last' = [op |-> "approve", who |-> Zero, result |-> Result(r), ret |-> 0]

ClaimReflectionRewards(sender) ==
    LET r == claimReflectionRewards(Storage, sender)
    IN /\ Commit(r)
       /\ UNCHANGED moves
       /\ last' = [op |-> "claim", who |-> sender, result |-> Result(r), ret |-> r.ret]

\* Variant of the view that records the entitlement as claimed.
GetClaimableReflection_Marks(holder) ==
    LET r == getClaimableReflection(Storage, holder)
    IN /\ _reflectionClaimed' =
              [_reflectionClaimed EXCEPT ![holder] = @ + r.ret]
       /\ UNCHANGED <<_balances, _allowances, _totalSupply, _owner,
                      _totalReflectionDistributed, burned, paid, policyVars, moves,
                      factoryVars>>
       /\ events' = <<>>
       /\ last' = [op |-> "getClaimableReflection", who |-> holder,
                   result |-> Result(r), ret |-> r.ret]

GetClaimableReflection(holder) ==
    LET r == getClaimableReflection(Storage, holder)
    IN /\ UNCHANGED <<ledgerVars, policyVars, moves, factoryVars>>
       /\ events' = <<>>
       /\ last' = [op |-> "getClaimableReflection", who |-> holder,
                   result |-> Result(r), ret |-> r.ret]

GetPendingReflection(holder) ==
    LET r == getPendingReflection(Storage, holder)
    IN /\ UNCHANGED <<ledgerVars, policyVars, moves, factoryVars>>
       /\ events' = <<>>
       /\ last' = [op |-> "getPendingReflection", who |-> holder,
                   result |-> Result(r), ret |-> r.ret]

\* The accounts that sign transactions, and the allowances they grant.
Spenders == {"A"}
Approvers == {"O"}
ApprovalInputs == {1, MaxUint256}

Next ==
    \/ \E s \in Holders, t \in Recipients : \E a \in AmountInputs(s) : Transfer(s, t, a)
    \/ \E sp \in Spenders, f \in Approvers, t \in Recipients :
          \E a \in AmountInputs(f) : TransferFrom(sp, f, t, a)
    \/ \E o \in Approvers, sp \in Spenders, v \in ApprovalInputs : Approve(o, sp, v)
    \/ \E s \in Holders : ClaimReflectionRewards(s)
    \/ \E h \in Holders : GetClaimableReflection(h)
    \/ \E h \in Holders : GetPendingReflection(h)

Spec == Init /\ [][Next]_vars

(***************************************************************************)
(* The fee computation over a grid of fee policies: every deployment the   *)
(* constructor accepts with percentages from PercentInputs, then transfers. *)
(***************************************************************************)
PercentInputs == {0, 10, 33, 100}
SplitSupply == 100

SplitArgs ==
    {Args(SplitSupply, t, w, r, b, er, eb) :
        t \in PercentInputs, w \in {Zero, "W"}, r \in PercentInputs,
        b \in PercentInputs, er \in BOOLEAN, eb \in BOOLEAN}

InitSplit == \E a \in SplitArgs : Deploy(a)

NextSplit ==
    \E s \in Holders, t \in {"A", "W"} : \E a \in AmountInputs(s) : Transfer(s, t, a)

SpecSplit == InitSplit /\ [][NextSplit]_vars

\* ---------------------------------------------------------------------
\* Transfers under fee policies whose tax wallet is the owner, a third
\* holder or unset, so that the tax wallet itself sends.
\* ---------------------------------------------------------------------
TaxWalletPercents == {0, 10, 33}

TaxWalletArgs ==
    {Args(SplitSupply, t, w, r, b, er, eb) :
        t \in PercentInputs, w \in {Zero, "O", "W"}, r \in TaxWalletPercents,
        b \in TaxWalletPercents, er \in BOOLEAN, eb \in BOOLEAN}

InitTaxWallet == \E a \in TaxWalletArgs : Deploy(a)

NextTaxWallet ==
    \E s \in Holders, t \in {"A", "W"} : \E a \in AmountInputs(s) : Transfer(s, t, a)

SpecTaxWallet == InitTaxWallet /\ [][NextTaxWallet]_vars

\* ---------------------------------------------------------------------
\* The whole external interface of one ledger: transfers, allowances,
\* claims, ownership and the disabled mint and burn entry points.
\* ---------------------------------------------------------------------
\* The fee policy as the public getters of the immutables return it
\* (lines 211-216).
getFeePolicy ==
    [taxPercent |-> taxPercent, taxWallet |-> taxWallet,
     reflectionPercent |-> REFLECTION_PERCENT, burnPercent |-> BURN_PERCENT,
     enableReflection |-> HAS_REFLECTION, enableBurn |-> HAS_BURN]

\* Variant of TransferOwnership that hands the tax wallet to the new owner.
TransferOwnership_MovesTaxWallet(sender, newOwner) ==
    LET r == transferOwnership(Storage, sender, newOwner)
    IN /\ IF r.err = ""
          THEN /\ _owner' = r.owner /\ events' = r.events
               /\ taxWallet' = newOwner
          ELSE /\ UNCHANGED <<_owner, taxWallet>> /\ events' = <<>>
       /\ UNCHANGED <<_balances, _allowances, _totalSupply, _reflectionClaimed,
                      _totalReflectionDistributed, burned, paid, taxPercent,
                      REFLECTION_PERCENT, BURN_PERCENT, HAS_REFLECTION, HAS_BURN,
                      initialSupply, factoryVars, moves>>
       /\ last' = [op |-> "transferOwnership", who |-> sender,
                   result |-> Result(r), ret |-> 0]

TransferOwnership(sender, newOwner) ==
    LET r == transferOwnership(Storage, sender, newOwner)
    IN /\ Commit(r)
       /\ UNCHANGED moves
       /\ last' = [op |-> "transferOwnership", who |-> sender,
                   result |-> Result(r), ret |-> 0]

RenounceOwnership(sender) ==
    LET r == renounceOwnership(Storage, sender)
    IN /\ Commit(r)
       /\ UNCHANGED moves
       /\ last' = [op |-> "renounceOwnership", who |-> sender,
                   result |-> Result(r), ret |-> 0]

Mint(sender, to, amount) ==
    LET r == mint(Storage, sender, to, amount)
    IN /\ Commit(r)
       /\ UNCHANGED moves
       /\ last' = [op |-> "mint", who |-> sender, result |-> Result(r), ret |-> 0]

Burn(sender, amount) ==
    LET r == burn(Storage, sender, amount)
    IN /\ Commit(r)
       /\ UNCHANGED moves
       /\ last' = [op |-> "burn", who |-> sender, result |-> Result(r), ret |-> 0]

BurnFrom(sender, account, amount) ==
    LET r == burnFrom(Storage, sender, account, amount)
    IN /\ Commit(r)
       /\ UNCHANGED moves
       /\ last' = [op |-> "burnFrom", who |-> sender, result |-> Result(r), ret |-> 0]

OwnerArgs ==
    {Args(1000, 10, "W", 10, 10, TRUE, TRUE),
     Args(1000, 5, "W", 5, 0, TRUE, FALSE),
     Args(1000, 0, Zero, 0, 0, FALSE, FALSE)}

Callers == {"O", "A"}
NewOwners == {"A", Zero}
SupplyInputs == {0, 1, MaxUint256}

InitOwner == \E a \in OwnerArgs : Deploy(a)

NextOwner ==
    \/ \E s \in Holders, t \in {"A", This} : \E a \in AmountInputs(s) : Transfer(s, t, a)
    \/ \E sp \in Spenders, f \in Approvers :
          \E a \in AmountInputs(f) : TransferFrom(sp, f, "A", a)
    \/ \E o \in Approvers, sp \in Spenders, v \in ApprovalInputs : Approve(o, sp, v)
    \/ \E s \in Holders : ClaimReflectionRewards(s)
    \/ \E c \in Callers, n \in NewOwners : TransferOwnership(c, n)
    \/ \E c \in Callers : RenounceOwnership(c)
    \/ \E c \in Callers, t \in {"A", Zero}, a \in SupplyInputs : Mint(c, t, a)
    \/ \E c \in Callers, a \in SupplyInputs : Burn(c, a)
    \/ \E c \in Callers, h \in {"O"}, a \in SupplyInputs : BurnFrom(c, h, a)

SpecOwner == InitOwner /\ [][NextOwner]_vars

\* ---------------------------------------------------------------------
\* Allowances: the owner grants, changes and withdraws finite and
\* unlimited allowances to two spenders, who spend within and beyond them.
\* ---------------------------------------------------------------------
AllowanceArgs ==
    {Args(1000, 10, "W", 10, 10, TRUE, TRUE),
     Args(1000, 0, Zero, 0, 0, FALSE, FALSE)}
AllowanceOwners == {"O"}
AllowanceSpenders == {"A", "W"}
AllowanceValues == {0, 600, MaxUint256}
AllowanceAmounts == {0, 400, 601}

InitAllowance == \E a \in AllowanceArgs : Deploy(a)

NextAllowance ==
    \/ \E o \in AllowanceOwners, sp \in AllowanceSpenders, v \in AllowanceValues :
          Approve(o, sp, v)
    \/ \E sp \in AllowanceSpenders, f \in AllowanceOwners, a \in AllowanceAmounts :
          TransferFrom(sp, f, "A", a)

SpecAllowance == InitAllowance /\ [][NextAllowance]_vars

(***************************************************************************)
(* Transfers at and beyond the sender's balance: every recipient,           *)
(* address(0) included, directly and through an allowance.                 *)
(***************************************************************************)
\* The deployments explored: those of the ledger, and one whose supply makes
\* the fee product of a whole-balance transfer leave the uint256 range.
OverdrawArgs == DeployArgs \cup {Args(2000, 0, Zero, 0, 100, FALSE, TRUE)}

\* The amounts passed: the whole balance, one more, and the largest uint256.
OverdrawInputs(sender) == {_balances[sender], _balances[sender] + 1, MaxUint256}

InitOverdraw == \E a \in OverdrawArgs : Deploy(a)

NextOverdraw ==
    \/ \E s \in Holders, t \in Recipients : \E a \in OverdrawInputs(s) : Transfer(s, t, a)
    \/ \E sp \in Spenders, f \in Approvers, t \in Recipients :
          \E a \in OverdrawInputs(f) : TransferFrom(sp, f, t, a)
    \/ \E o \in Approvers, sp \in Spenders, v \in ApprovalInputs : Approve(o, sp, v)

SpecOverdraw == InitOverdraw /\ [][NextOverdraw]_vars

(***************************************************************************)
(* TokenFactory (TokenFactory.sol, lines 119-267) and the constructor of   *)
(* the contract it deploys (SecureToken.sol, lines 57-97).                 *)
(***************************************************************************)
\* Exploration bound: the tokens one factory deploys.
MaxTokens == 2

\* Variant of the constructor that credits the supply to the tax wallet.
SecureToken_constructor_MintsToWallet(a) ==
    LET feeSum == AddUint8(AddUint8(a.taxPercent, a.reflectionPercent), a.burnPercent)
        minted == _mint(BlankStorage, a.taxWallet, a.initialSupply)
        err == IF a.initialOwner = Zero THEN "OwnableInvalidOwner"
               ELSE IF ~(a.taxPercent <= 100) THEN "Tax percent must be <= 100"
               ELSE IF ~(a.reflectionPercent <= 100) THEN "Reflection percent must be <= 100"
               ELSE IF ~(a.burnPercent <= 100) THEN "Burn percent must be <= 100"
               ELSE IF ~(a.initialOwner # Zero) THEN "Owner cannot be zero address"
               ELSE IF ~(a.initialSupply > 0) THEN "Initial supply must be > 0"
               ELSE IF a.taxPercent > 0 /\ a.taxWallet = Zero
                    THEN "Tax wallet cannot be zero address when tax > 0"
               ELSE IF feeSum = -1 THEN Panic
               ELSE IF ~(feeSum <= 100) THEN "Total fees cannot exceed 100%"
               ELSE minted.err
    IN [err |-> err,
        token |-> [name |-> a.name, symbol |-> a.symbol,
                   taxPercent |-> a.taxPercent, taxWallet |-> a.taxWallet,
                   REFLECTION_PERCENT |-> a.reflectionPercent,
                   BURN_PERCENT |-> a.burnPercent,
                   HAS_REFLECTION |-> a.enableReflection,
                   HAS_BURN |-> a.enableBurn,
                   owner |-> a.initialOwner,
                   totalSupply |-> minted.ts,
                   balances |-> minted.bal,
                   allowances |-> minted.allow,
                   _reflectionBalance |-> [h \in Recipients |-> 0],
                   _totalReflectionDistributed |-> 0]]

\* The constructor of the deployed contract: the revert reason ("" if none)
\* and the contract as constructed.
SecureToken_constructor(a) ==
    LET feeSum == AddUint8(AddUint8(a.taxPercent, a.reflectionPercent), a.burnPercent)
        minted == _mint(BlankStorage, a.initialOwner, a.initialSupply)
        err == IF a.initialOwner = Zero THEN "OwnableInvalidOwner"
               ELSE IF ~(a.taxPercent <= 100) THEN "Tax percent must be <= 100"
               ELSE IF ~(a.reflectionPercent <= 100) THEN "Reflection percent must be <= 100"
               ELSE IF ~(a.burnPercent <= 100) THEN "Burn percent must be <= 100"
               ELSE IF ~(a.initialOwner # Zero) THEN "Owner cannot be zero address"
               ELSE IF ~(a.initialSupply > 0) THEN "Initial supply must be > 0"
               ELSE IF a.taxPercent > 0 /\ a.taxWallet = Zero
                    THEN "Tax wallet cannot be zero address when tax > 0"
               ELSE IF feeSum = -1 THEN Panic
               ELSE IF ~(feeSum <= 100) THEN "Total fees cannot exceed 100%"
               ELSE minted.err
    IN [err |-> err,
        token |-> [name |-> a.name, symbol |-> a.symbol,
                   taxPercent |-> a.taxPercent, taxWallet |-> a.taxWallet,
                   REFLECTION_PERCENT |-> a.reflectionPercent,
                   BURN_PERCENT |-> a.burnPercent,
                   HAS_REFLECTION |-> a.enableReflection,
                   HAS_BURN |-> a.enableBurn,
                   owner |-> a.initialOwner,
                   totalSupply |-> minted.ts,
                   balances |-> minted.bal,
                   allowances |-> minted.allow,
                   _reflectionBalance |-> [h \in Recipients |-> 0],
                   _totalReflectionDistributed |-> 0]]

\* The storage of a deployed SecureToken.sol as the record its ERC20 base
\* works on. The base is OpenZeppelin's ERC20 and Ownable, imported at lines
\* 4-5; its movements are those of the ERC20 of the flattened copy.
SecureStorage(tk) ==
    [bal |-> tk.balances, allow |-> tk.allowances, ts |-> tk.totalSupply,
     owner |-> tk.owner, claimed |-> BlankStorage.claimed,
     dist |-> tk._totalReflectionDistributed, burned |-> 0,
     queued |-> tk._reflectionBalance,
     events |-> <<>>, ret |-> 0, err |-> ""]

\* The token after a call that did not revert.
SecureWritten(tk, r) ==
    [tk EXCEPT !.balances = r.bal, !.allowances = r.allow, !.totalSupply = r.ts,
               !.owner = r.owner, !._reflectionBalance = r.queued,
               !._totalReflectionDistributed = r.dist]

\* The fee computation of SecureToken.sol's transfer and transferFrom
\* (lines 105-127 and 160-181).
SecureToken_Split(tk, sender, amount) ==
    LET doBurn == tk.HAS_BURN /\ sender # Zero
        burnAmount == IF doBurn THEN (amount * tk.BURN_PERCENT) \div 100 ELSE 0
        net1 == amount - burnAmount
        doReflect == tk.HAS_REFLECTION /\ sender # Zero
        reflectionAmount == IF doReflect THEN (net1 * tk.REFLECTION_PERCENT) \div 100
                            ELSE 0
        net2 == net1 - reflectionAmount
        doTax == tk.taxPercent > 0 /\ tk.taxWallet # Zero /\ sender # tk.taxWallet
        taxAmount == IF doTax THEN (net2 * tk.taxPercent) \div 100 ELSE 0
        net3 == net2 - taxAmount
        overflow == \/ doBurn /\ amount * tk.BURN_PERCENT > MaxUint256
                    \/ doReflect /\ net1 * tk.REFLECTION_PERCENT > MaxUint256
                    \/ doTax /\ net2 * tk.taxPercent > MaxUint256
        underflow == net1 < 0 \/ net2 < 0 \/ net3 < 0
    IN [burnAmount |-> burnAmount, reflectionAmount |-> reflectionAmount,
        taxAmount |-> taxAmount, netAmount |-> net3,
        overflow |-> overflow, underflow |-> underflow]

\* _addReflectionReward (lines 207-213): the reward is queued for `holder`.
SecureToken_addReflectionReward(tk, st, holder, amount) ==
    IF st.err # "" THEN st
    ELSE IF ~tk.HAS_REFLECTION \/ amount = 0 THEN st
    ELSE IF st.queued[holder] + amount > MaxUint256 \/ st.dist + amount > MaxUint256
         THEN Revert(st, Panic)
    ELSE Emit([st EXCEPT !.queued[holder] = @ + amount, !.dist = @ + amount],
              [name |-> "ReflectionAdded", holder |-> holder, amount |-> amount])

\* Variant of the movements that queues the reward without moving the
\* reflection amount into the contract.
SecureToken_ApplySplit_QueuesOnly(tk, st, sender, to, sp) ==
    LET s1 == IF sp.burnAmount > 0
              THEN Emit(_update(st, sender, Zero, sp.burnAmount),
                        [name |-> "TokensBurned", from |-> sender, amount |-> sp.burnAmount])
              ELSE st
        s2 == IF sp.reflectionAmount > 0
              THEN SecureToken_addReflectionReward(tk, s1, to, sp.reflectionAmount)
              ELSE s1
        s3 == IF sp.taxAmount > 0
              THEN _transfer(s2, sender, tk.taxWallet, sp.taxAmount)
              ELSE s2
        s4 == _transfer(s3, sender, to, sp.netAmount)
    IN Emit(s4, [name |-> "TokensTransferred", from |-> sender, to |-> to,
                 amount |-> sp.netAmount, taxAmount |-> sp.taxAmount])

\* The movements of SecureToken.sol's transfer (lines 129-145).
SecureToken_ApplySplit(tk, st, sender, to, sp) ==
    LET s1 == IF sp.burnAmount > 0
              THEN Emit(_update(st, sender, Zero, sp.burnAmount),
                        [name |-> "TokensBurned", from |-> sender, amount |-> sp.burnAmount])
              ELSE st
        s2 == IF sp.reflectionAmount > 0
              THEN SecureToken_addReflectionReward(tk,
                       _transfer(s1, sender, This, sp.reflectionAmount),
                       to, sp.reflectionAmount)
              ELSE s1
        s3 == IF sp.taxAmount > 0
              THEN _transfer(s2, sender, tk.taxWallet, sp.taxAmount)
              ELSE s2
        s4 == _transfer(s3, sender, to, sp.netAmount)
    IN Emit(s4, [name |-> "TokensTransferred", from |-> sender, to |-> to,
                 amount |-> sp.netAmount, taxAmount |-> sp.taxAmount])

\* SecureToken.sol transfer (lines 104-148), msg.sender = sender.
SecureToken_transfer(tk, sender, to, amount) ==
    LET st == SecureStorage(tk)
        sp == SecureToken_Split(tk, sender, amount)
    IN IF sp.overflow \/ sp.underflow THEN Revert(st, Panic)
       ELSE SecureToken_ApplySplit(tk, st, sender, to, sp)

\* SecureToken.sol transferFrom (lines 156-202), msg.sender = spender.
SecureToken_transferFrom(tk, spender, from, to, amount) ==
    LET s0 == _spendAllowance(SecureStorage(tk), from, spender, amount)
        sp == SecureToken_Split(tk, from, amount)
    IN IF s0.err # "" THEN s0
       ELSE IF sp.overflow \/ sp.underflow THEN Revert(s0, Panic)
       ELSE SecureToken_ApplySplit(tk, s0, from, to, sp)

\* SecureToken.sol claimReflectionRewards (lines 219-233): the queue of the
\* caller is paid out and cleared.
SecureToken_claimReflectionRewards(tk, sender) ==
    LET st == SecureStorage(tk)
        rewards == st.queued[sender]
    IN IF ~tk.HAS_REFLECTION THEN Revert(st, "Reflection is disabled for this token")
       ELSE IF ~(rewards > 0) THEN Revert(st, "No reflection rewards to claim")
       ELSE LET s1 == [st EXCEPT !.queued[sender] = 0]
                s2 == _transfer(s1, This, sender, rewards)
                s3 == Emit(s2, [name |-> "ReflectionClaimed", holder |-> sender,
                                amount |-> rewards])
            IN IF s3.err = "" THEN [s3 EXCEPT !.ret = rewards] ELSE s3

\* SecureToken.sol getPendingReflection (lines 238-245).
SecureToken_getPendingReflection(tk, holder) ==
    IF ~tk.HAS_REFLECTION THEN [ret |-> 0, err |-> ""]
    ELSE [ret |-> tk._reflectionBalance[holder], err |-> ""]

\* approve of the ERC20 base of SecureToken.sol.
SecureToken_approve(tk, owner, spender, value) ==
    _approve(SecureStorage(tk), owner, spender, value)

\* The storage of the factory as a record.
FactoryStorage ==
    [deployed |-> deployedTokens, creators |-> creatorTokens, tokens |-> tokens,
     events |-> <<>>, ret |-> 0, err |-> ""]

\* Variant of createToken whose fee check is strict: a sum of exactly 100 is
\* refused.
createToken_StrictSum(fst, sender, a) ==
    LET feeSum == AddUint8(AddUint8(a.taxPercent, a.reflectionPercent), a.burnPercent)
        made == SecureToken_constructor(a)
        tokenAddress == Len(fst.tokens) + 1
    IN IF ~(Len(a.name) > 0) THEN Revert(fst, "Name required")
       ELSE IF ~(Len(a.symbol) > 0) THEN Revert(fst, "Symbol required")
       ELSE IF ~(a.reflectionPercent <= 100) THEN Revert(fst, "Reflection cannot exceed 100%")
       ELSE IF ~(a.burnPercent <= 100) THEN Revert(fst, "Burn cannot exceed 100%")
       ELSE IF feeSum = -1 THEN Revert(fst, Panic)
       ELSE IF ~(feeSum < 100)
            THEN Revert(fst, "Total fees (tax + reflection + burn) cannot exceed 100%")
       ELSE IF made.err # "" THEN Revert(fst, made.err)
       ELSE Emit([fst EXCEPT !.tokens = Append(@, made.token),
                             !.deployed = Append(@, tokenAddress),
                             !.creators[sender] = Append(@, tokenAddress),
                             !.ret = tokenAddress],
                 [name |-> "TokenDeployed", tokenAddress |-> tokenAddress,
                  creator |-> sender, initialSupply |-> a.initialSupply,
                  taxPercent |-> a.taxPercent, taxWallet |-> a.taxWallet,
                  initialOwner |-> a.initialOwner])

\* Variant of createToken that puts the new token in front of the global list.
createToken_Prepends(fst, sender, a) ==
    LET feeSum == AddUint8(AddUint8(a.taxPercent, a.reflectionPercent), a.burnPercent)
        made == SecureToken_constructor(a)
        tokenAddress == Len(fst.tokens) + 1
    IN IF ~(Len(a.name) > 0) THEN Revert(fst, "Name required")
       ELSE IF ~(Len(a.symbol) > 0) THEN Revert(fst, "Symbol required")
       ELSE IF ~(a.reflectionPercent <= 100) THEN Revert(fst, "Reflection cannot exceed 100%")
       ELSE IF ~(a.burnPercent <= 100) THEN Revert(fst, "Burn cannot exceed 100%")
       ELSE IF feeSum = -1 THEN Revert(fst, Panic)
       ELSE IF ~(feeSum <= 100)
            THEN Revert(fst, "Total fees (tax + reflection + burn) cannot exceed 100%")
       ELSE IF made.err # "" THEN Revert(fst, made.err)
       ELSE Emit([fst EXCEPT !.tokens = Append(@, made.token),
                             !.deployed = <<tokenAddress>> \o @,
                             !.creators[sender] = Append(@, tokenAddress),
                             !.ret = tokenAddress],
                 [name |-> "TokenDeployed", tokenAddress |-> tokenAddress,
                  creator |-> sender, initialSupply |-> a.initialSupply,
                  taxPercent |-> a.taxPercent, taxWallet |-> a.taxWallet,
                  initialOwner |-> a.initialOwner])

\* createToken (lines 151-212), msg.sender = sender.
createToken(fst, sender, a) ==
    LET feeSum == AddUint8(AddUint8(a.taxPercent, a.reflectionPercent), a.burnPercent)
        made == SecureToken_constructor(a)
        tokenAddress == Len(fst.tokens) + 1
    IN IF ~(Len(a.name) > 0) THEN Revert(fst, "Name required")
       ELSE IF ~(Len(a.symbol) > 0) THEN Revert(fst, "Symbol required")
       ELSE IF ~(a.reflectionPercent <= 100) THEN Revert(fst, "Reflection cannot exceed 100%")
       ELSE IF ~(a.burnPercent <= 100) THEN Revert(fst, "Burn cannot exceed 100%")
       ELSE IF feeSum = -1 THEN Revert(fst, Panic)
       ELSE IF ~(feeSum <= 100)
            THEN Revert(fst, "Total fees (tax + reflection + burn) cannot exceed 100%")
       ELSE IF made.err # "" THEN Revert(fst, made.err)
       ELSE Emit([fst EXCEPT !.tokens = Append(@, made.token),
                             !.deployed = Append(@, tokenAddress),
                             !.creators[sender] = Append(@, tokenAddress),
                             !.ret = tokenAddress],
                 [name |-> "TokenDeployed", tokenAddress |-> tokenAddress,
                  creator |-> sender, initialSupply |-> a.initialSupply,
                  taxPercent |-> a.taxPercent, taxWallet |-> a.taxWallet,
                  initialOwner |-> a.initialOwner])

\* The arguments of one createToken call.
FactoryArgs(name, symbol, supply, tax, wallet, refl, burnPct) ==
    [name |-> name, symbol |-> symbol, initialSupply |-> supply,
     taxPercent |-> tax, taxWallet |-> wallet,
     reflectionPercent |-> refl, burnPercent |-> burnPct,
     enableReflection |-> TRUE, enableBurn |-> TRUE, initialOwner |-> "O"]

\* The uint8 percentages the callers of the factory pass.
FactoryPercents == {0, 60, 100, 255}

\* The calls explored: every triple of percentages on an otherwise valid
\* request, and the requests that fail the other validations.
CreateInputs ==
    {FactoryArgs("Token", "TKN", 1000, t, "W", r, b) :
        t \in FactoryPercents, r \in FactoryPercents, b \in FactoryPercents}
    \cup {FactoryArgs("", "TKN", 1000, 0, "W", 0, 0),
          FactoryArgs("Token", "", 1000, 0, "W", 0, 0),
          FactoryArgs("Token", "TKN", 0, 0, "W", 0, 0),
          FactoryArgs("", "", 0, 100, Zero, 100, 100),
          FactoryArgs("Token", "TKN", 1000, 0, Zero, 0, 0),
          FactoryArgs("Token", "TKN", 1000, 60, Zero, 0, 0),
          [FactoryArgs("Token", "TKN", 1000, 0, "W", 0, 0) EXCEPT !.initialOwner = Zero],
          [FactoryArgs("Token", "TKN", 7, 0, "W", 60, 0) EXCEPT !.initialOwner = "A"]}

Creators == {"A", "O"}

\* Variant of CreateToken in which a refused request still leaves an entry
\* in the global list.
CreateToken_PartialEntry(sender, a) ==
    LET r == createToken(FactoryStorage, sender, a)
    IN /\ Len(deployedTokens) < MaxTokens
       /\ IF r.err = ""
          THEN /\ deployedTokens' = r.deployed
               /\ creatorTokens' = r.creators
               /\ tokens' = r.tokens
               /\ events' = r.events
               /\ UNCHANGED bot
          ELSE /\ deployedTokens' = Append(deployedTokens, Len(tokens) + 1)
               /\ UNCHANGED <<creatorTokens, tokens, bot>>
               /\ events' = <<>>
       /\ UNCHANGED <<ledgerVars, policyVars, moves>>
       /\ last' = [op |-> "createToken", who |-> Zero, result |-> Result(r),
                   ret |-> r.ret]

CreateToken(sender, a) ==
    LET r == createToken(FactoryStorage, sender, a)
    IN /\ Len(deployedTokens) < MaxTokens
       /\ IF r.err = ""
          THEN /\ deployedTokens' = r.deployed
               /\ creatorTokens' = r.creators
               /\ tokens' = r.tokens
               /\ events' = r.events
               /\ UNCHANGED bot
          ELSE /\ UNCHANGED factoryVars
               /\ events' = <<>>
       /\ UNCHANGED <<ledgerVars, policyVars, moves>>
       /\ last' = [op |-> "createToken", who |-> Zero, result |-> Result(r),
                   ret |-> r.ret]

\* getTotalTokens (lines 227-229).
GetTotalTokens ==
    /\ UNCHANGED <<ledgerVars, policyVars, moves, factoryVars>>
    /\ events' = <<>>
    /\ last' = [op |-> "getTotalTokens", who |-> Zero, result |-> "ok",
                ret |-> Len(deployedTokens)]

\* getTokenAtIndex (lines 236-239).
getTokenAtIndex(fst, index) ==
    IF ~(index < Len(fst.deployed)) THEN Revert(fst, "Index out of bounds")
    ELSE [fst EXCEPT !.ret = fst.deployed[index + 1]]

\* getCreatorTokens (lines 219-221).
getCreatorTokens(fst, creator) == [fst EXCEPT !.ret = fst.creators[creator]]

\* The indices asked for: every position of a full list, and the one past it.
IndexInputs == 0..MaxTokens

GetTokenAtIndex(index) ==
    LET r == getTokenAtIndex(FactoryStorage, index)
    IN /\ UNCHANGED <<ledgerVars, policyVars, moves, factoryVars>>
       /\ events' = <<>>
       /\ last' = [op |-> "getTokenAtIndex", who |-> Zero, result |-> Result(r),
                   ret |-> r.ret]

GetCreatorTokens(creator) ==
    LET r == getCreatorTokens(FactoryStorage, creator)
    IN /\ UNCHANGED <<ledgerVars, policyVars, moves, factoryVars>>
       /\ events' = <<>>
       /\ last' = [op |-> "getCreatorTokens", who |-> creator, result |-> Result(r),
                   ret |-> r.ret]

\* A factory that has deployed nothing; no ledger is observed.
InitFactory ==
    /\ _balances = BlankStorage.bal
    /\ _allowances = BlankStorage.allow
    /\ _totalSupply = 0
    /\ _owner = Zero
    /\ _reflectionClaimed = BlankStorage.claimed
    /\ _totalReflectionDistributed = 0
    /\ burned = 0
    /\ paid = BlankStorage.paid
    /\ events = <<>>
    /\ taxPercent = 0
    /\ taxWallet = Zero
    /\ REFLECTION_PERCENT = 0
    /\ BURN_PERCENT = 0
    /\ HAS_REFLECTION = FALSE
    /\ HAS_BURN = FALSE
    /\ initialSupply = 0
    /\ last = NoCall
    /\ moves = 0
    /\ deployedTokens = <<>>
    /\ creatorTokens = [c \in Holders |-> <<>>]
    /\ tokens = <<>>
    /\ bot = NoBot

NextFactory ==
    \/ \E c \in Creators, a \in CreateInputs : CreateToken(c, a)
    \/ GetTotalTokens
    \/ \E i \in IndexInputs : GetTokenAtIndex(i)
    \/ \E c \in Holders : GetCreatorTokens(c)

SpecFactory == InitFactory /\ [][NextFactory]_vars

\* ---------------------------------------------------------------------
\* The flattened copy and contracts/SecureToken.sol side by side: both are
\* constructed with the same arguments and receive the same calls. The
\* ledger variables hold the flattened copy, tokens[1] holds SecureToken.sol.
\* ---------------------------------------------------------------------
PairArgs ==
    {Args(1000, 10, "W", 10, 10, TRUE, TRUE),
     Args(1000, 5, "W", 5, 0, TRUE, FALSE),
     Args(1000, 0, Zero, 0, 10, FALSE, TRUE),
     Args(1000, 0, Zero, 0, 0, FALSE, FALSE)}

\* The constructor arguments with the name and the symbol SecureToken.sol
\* is given.
Named(a) ==
    [name |-> "Token", symbol |-> "TKN", initialSupply |-> a.initialSupply,
     taxPercent |-> a.taxPercent, taxWallet |-> a.taxWallet,
     reflectionPercent |-> a.reflectionPercent, burnPercent |-> a.burnPercent,
     enableReflection |-> a.enableReflection, enableBurn |-> a.enableBurn,
     initialOwner |-> a.initialOwner]

InitPair ==
    \E a \in PairArgs :
       LET r == constructor(a)
           made == SecureToken_constructor(Named(a))
       IN /\ r.err = "" /\ made.err = ""
          /\ _balances = r.bal
          /\ _allowances = r.allow
          /\ _totalSupply = r.ts
          /\ _owner = r.owner
          /\ _reflectionClaimed = r.claimed
          /\ _totalReflectionDistributed = r.dist
          /\ burned = r.burned
          /\ paid = r.paid
          /\ events = r.events
          /\ taxPercent = a.taxPercent
          /\ taxWallet = a.taxWallet
          /\ REFLECTION_PERCENT = a.reflectionPercent
          /\ BURN_PERCENT = a.burnPercent
          /\ HAS_REFLECTION = a.enableReflection
          /\ HAS_BURN = a.enableBurn
          /\ initialSupply = a.initialSupply
          /\ last = [op |-> "constructor", who |-> Zero, result |-> "ok", ret |-> 0,
                     result2 |-> "ok", ret2 |-> 0]
          /\ moves = 0
          /\ deployedTokens = <<>>
          /\ creatorTokens = [c \in Holders |-> <<>>]
          /\ tokens = <<made.token>>
          /\ bot = NoBot

\* Both transactions end: each contract keeps its writes when its own call
\* did not revert; r is the call on the flattened copy, q on SecureToken.sol.
CommitPair(r, q) ==
    /\ IF r.err = ""
       THEN /\ _balances' = r.bal
            /\ _allowances' = r.allow
            /\ _totalSupply' = r.ts
            /\ _owner' = r.owner
            /\ _reflectionClaimed' = r.claimed
            /\ _totalReflectionDistributed' = r.dist
            /\ burned' = r.burned
            /\ paid' = r.paid
            /\ events' = r.events
       ELSE /\ UNCHANGED ledgerVars
            /\ events' = <<>>
    /\ tokens' = IF q.err = "" THEN <<SecureWritten(tokens[1], q)>> ELSE tokens
    /\ UNCHANGED <<policyVars, deployedTokens, creatorTokens, bot>>

PairCall(op, who, r, q) ==
    last' = [op |-> op, who |-> who, result |-> Result(r), ret |-> r.ret,
             result2 |-> Result(q), ret2 |-> q.ret]

PairTransfer(sender, to, amount) ==
    LET r == transfer(Storage, sender, to, amount)
        q == SecureToken_transfer(tokens[1], sender, to, amount)
    IN CommitPair(r, q) /\ Moved(r, amount) /\ PairCall("transfer", sender, r, q)

PairTransferFrom(spender, from, to, amount) ==
    LET r == transferFrom(Storage, spender, from, to, amount)
        q == SecureToken_transferFrom(tokens[1], spender, from, to, amount)
    IN CommitPair(r, q) /\ Moved(r, amount) /\ PairCall("transferFrom", from, r, q)

PairApprove(owner, spender, value) ==
    LET r == _approve(Storage, owner, spender, value)
        q == SecureToken_approve(tokens[1], owner, spender, value)
    IN CommitPair(r, q) /\ UNCHANGED moves /\ PairCall("approve", owner, r, q)

PairClaimReflectionRewards(sender) ==
    LET r == claimReflectionRewards(Storage, sender)
        q == SecureToken_claimReflectionRewards(tokens[1], sender)
    IN CommitPair(r, q) /\ UNCHANGED moves /\ PairCall("claim", sender, r, q)

PairGetPendingReflection(holder) ==
    LET r == getPendingReflection(Storage, holder)
        q == SecureToken_getPendingReflection(tokens[1], holder)
    IN /\ UNCHANGED <<ledgerVars, policyVars, factoryVars, moves>>
       /\ events' = <<>>
       /\ PairCall("getPendingReflection", holder, r, q)

NextPair ==
    \/ \E s \in Holders, t \in {"A", "W"} : \E a \in AmountInputs(s) :
          PairTransfer(s, t, a)
    \/ \E sp \in Spenders, f \in Approvers : \E a \in AmountInputs(f) :
          PairTransferFrom(sp, f, "A", a)
    \/ \E o \in Approvers, sp \in Spenders, v \in ApprovalInputs : PairApprove(o, sp, v)
    \/ \E s \in Holders : PairClaimReflectionRewards(s)
    \/ \E h \in Holders : PairGetPendingReflection(h)

SpecPair == InitPair /\ [][NextPair]_vars

(***************************************************************************)
(* Properties.                                                             *)
(***************************************************************************)
RECURSIVE SumOver(_, _)
SumOver(f, S) ==
    IF S = {} THEN 0
    ELSE LET x == CHOOSE y \in S : TRUE IN f[x] + SumOver(f, S \ {x})

\* The sum of all balances, the reserve account (the contract itself) included.
SumBalances == SumOver(_balances, Recipients)

\* The revert reasons of claimReflectionRewards that mean NothingToClaim.
NothingToClaim ==
    {"Reflection is disabled for this token",
     "You must hold tokens to claim reflection",
     "Total supply must be greater than 0",
     "No reflection rewards available",
     "No reflection rewards to claim"}

\* C1: in every reachable state, the sum of all balances (reserve included)
\* plus the cumulative amount burned equals the supply fixed at creation.
C1_Conservation == SumBalances + burned = initialSupply

\* C1 witness: value has been burned, pooled and claimed back on one ledger.
C1_Witness ==
    /\ burned > 0
    /\ _balances[This] > 0
    /\ \E h \in Holders : _reflectionClaimed[h] > 0
    /\ SumBalances + burned = initialSupply

\* C2: in every reachable state, the sum of all balances, reserve included,
\* equals the current total supply.
C2_SupplyEqualsBalances == SumBalances = _totalSupply

\* C2 witness: after a burn has lowered the supply, a claim has just paid.
C2_Witness ==
    /\ _totalSupply < initialSupply
    /\ last.op = "claim" /\ last.result = "ok" /\ last.ret > 0
    /\ SumBalances = _totalSupply

\* f with v more at key k.
Credit(f, k, v) == [f EXCEPT ![k] = @ + v]

\* What the claim says a transfer of a by s to t does to the ledger: burn on
\* the amount, reflection on the post-burn net, tax on the post-burn,
\* post-reflection net, the rest to the recipient.
CascadePost(s, t, a) ==
    LET burnPart == IF HAS_BURN THEN (a * BURN_PERCENT) \div 100 ELSE 0
        reflectPart == IF HAS_REFLECTION
                       THEN ((a - burnPart) * REFLECTION_PERCENT) \div 100
                       ELSE 0
        taxPart == IF taxPercent > 0 /\ taxWallet # Zero /\ s # taxWallet
                   THEN ((a - burnPart - reflectPart) * taxPercent) \div 100
                   ELSE 0
        received == a - burnPart - reflectPart - taxPart
    IN /\ burned' = burned + burnPart
       /\ _totalSupply' = _totalSupply - burnPart
       /\ _balances' = Credit(Credit(Credit(Credit(_balances, s, 0 - a),
                                            This, reflectPart),
                                     taxWallet, taxPart),
                              t, received)

\* The two worked examples of the claim, on the balances of a transfer of
\* 1000 by s to a third party t.
CascadeExamples(s, t, a) ==
    (a = 1000 /\ s # taxWallet /\ t \notin {s, This, taxWallet}) =>
       /\ (taxPercent = 10 /\ REFLECTION_PERCENT = 10 /\ BURN_PERCENT = 10
             /\ HAS_REFLECTION /\ HAS_BURN) =>
             /\ burned' - burned = 100
             /\ _balances'[This] - _balances[This] = 90
             /\ _balances'[taxWallet] - _balances[taxWallet] = 81
             /\ _balances'[t] - _balances[t] = 729
       /\ (taxPercent = 5 /\ REFLECTION_PERCENT = 5 /\ BURN_PERCENT = 0
             /\ HAS_REFLECTION) =>
             /\ _balances'[This] - _balances[This] = 50
             /\ _balances'[taxWallet] - _balances[taxWallet] = 47
             /\ _balances'[t] - _balances[t] = 903
             /\ _totalSupply' = _totalSupply

\* C3: the fees of a successful transfer are a cascade: burn on the amount,
\* reflection on the post-burn net, tax on the post-burn post-reflection net;
\* 1000 at 10/10/10 gives burn 100, reflection 90, tax 81, received 729, and
\* 1000 at tax 5, reflection 5, burn 0 gives 50 pooled, 47 tax, 903 received
\* with the supply unchanged.
C3_Cascade ==
    [][(last'.op = "transfer" /\ last'.result = "ok") =>
          LET done == events'[Len(events')]
          IN \A a \in AmountInputs(done.from) :
                Transfer(done.from, done.to, a) =>
                   /\ CascadePost(done.from, done.to, a)
                   /\ CascadeExamples(done.from, done.to, a)]_vars

\* C3 witness: the first worked example has just happened.
C3_Witness ==
    /\ taxPercent = 10 /\ REFLECTION_PERCENT = 10 /\ BURN_PERCENT = 10
    /\ last.op = "transfer" /\ last.result = "ok"
    /\ \E i \in 1..Len(events) :
          /\ events[i].name = "TokensTransferred"
          /\ events[i].from = "O" /\ events[i].to = "A"
          /\ events[i].amount = 729 /\ events[i].taxAmount = 81
    /\ burned = 100 /\ _totalSupply = 900
    /\ _balances = [a \in Recipients |->
                      CASE a = "A" -> 729 [] a = "W" -> 81 [] a = This -> 90
                        [] OTHER -> 0]

\* The amounts the fee computation is checked on.
SplitAmounts == 0..SplitSupply

\* C4: for every valid fee policy and every amount, burn + reflection + tax
\* + net equals the amount, no term is negative and no subtraction
\* underflows; a successful transfer debits the sender by exactly the amount
\* (a sender who is also the recipient gets the net back). The fee policy is
\* immutable, so the computation is examined on the steps that leave the
\* state after construction.
C4_SplitIsExact ==
    [][/\ (last = NoCall) =>
             \A s \in Holders, a \in SplitAmounts :
                LET sp == TransferSplit(s, a)
                IN /\ ~sp.underflow /\ ~sp.overflow
                   /\ sp.burnAmount >= 0 /\ sp.reflectionAmount >= 0
                   /\ sp.taxAmount >= 0 /\ sp.netAmount >= 0
                   /\ sp.burnAmount + sp.reflectionAmount + sp.taxAmount
                         + sp.netAmount = a
       /\ (last'.op = "transfer" /\ last'.result = "ok") =>
             LET done == events'[Len(events')]
                 s == done.from
             IN \A a \in AmountInputs(s) :
                   Transfer(s, done.to, a) =>
                      _balances'[s] = _balances[s] - a
                          + (IF done.to = s THEN done.amount ELSE 0)]_vars

\* C4 witness: a transfer of 100 under 33/33/33, where every fee rounds down.
C4_Witness ==
    /\ taxPercent = 33 /\ REFLECTION_PERCENT = 33 /\ BURN_PERCENT = 33
    /\ HAS_REFLECTION /\ HAS_BURN /\ taxWallet = "W"
    /\ last.op = "transfer" /\ last.result = "ok"
    /\ burned = 33 /\ _balances[This] = 22 /\ _balances["W"] = 14
    /\ _balances["A"] = 31 /\ _balances["O"] = 0

\* C5: a successful claim immediately followed by a claim of the same holder
\* (no transfer in between) has the second claim fail with NothingToClaim.
C5_SecondClaimFails ==
    [][(last.op = "claim" /\ last.result = "ok"
          /\ last'.op = "claim" /\ last'.who = last.who)
        => last'.result \in NothingToClaim]_vars

\* C6: a successful claim of holder h computes the entitlement
\* floor(balance * reserve / totalSupply), pays entitlement minus mark, sets
\* the mark to the entitlement, moves the payable from the reserve to h,
\* returns it, and changes nothing else.
C6_ClaimEffect ==
    [][(last'.op = "claim" /\ last'.result = "ok") =>
          LET h == last'.who
              entitlement == (_balances[h] * _balances[This]) \div _totalSupply
              payable == entitlement - _reflectionClaimed[h]
          IN /\ last'.ret = payable
             /\ _reflectionClaimed' = [_reflectionClaimed EXCEPT ![h] = entitlement]
             /\ _balances' = Credit(Credit(_balances, This, 0 - payable), h, payable)
             /\ UNCHANGED <<_allowances, _totalSupply, _owner, burned,
                            _totalReflectionDistributed, policyVars>>]_vars

\* C6 witness: a claim has paid a holder whose mark was already positive.
C6_Witness ==
    /\ last.op = "claim" /\ last.result = "ok" /\ last.ret > 0
    /\ _reflectionClaimed[last.who] > last.ret

\* The preconditions of a claim by h are unmet: reflection disabled, balance
\* zero, supply zero, reserve zero, or nothing payable.
ClaimUnmet(h) ==
    \/ ~HAS_REFLECTION
    \/ _balances[h] = 0
    \/ _totalSupply = 0
    \/ _balances[This] = 0
    \/ /\ _balances[h] * _balances[This] <= MaxUint256
       /\ (_balances[h] * _balances[This]) \div _totalSupply
             - _reflectionClaimed[h] <= 0

\* C7: a claim whose preconditions are unmet fails with NothingToClaim and
\* changes no state; a claim never succeeds while paying zero.
C7_ClaimFails ==
    [][(last'.op = "claim") =>
          \A h \in Holders :
              ClaimReflectionRewards(h) =>
                 /\ ClaimUnmet(h) =>
                       /\ last'.result \in NothingToClaim
                       /\ UNCHANGED <<ledgerVars, policyVars>>
                 /\ (last'.result = "ok") => (last'.ret > 0)]_vars

\* C7 witness: a claim was refused because everything payable was paid.
C7_Witness ==
    /\ last.op = "claim"
    /\ last.result = "No reflection rewards to claim"
    /\ _reflectionClaimed[last.who] > 0

\* C8: peek(holder) returns what a claim by holder would pay right now, 0
\* exactly when that claim would fail with NothingToClaim, and never fails.
C8_PeekMatchesClaim ==
    \A h \in Holders :
        LET p == getClaimableReflection(Storage, h)
            c == claimReflectionRewards(Storage, h)
        IN /\ p.err = ""
           /\ (c.err = "") => (p.ret = c.ret)
           /\ (p.ret = 0) <=> (c.err \in NothingToClaim)

IsPeek(call) == call.op \in {"getClaimableReflection", "getPendingReflection"}

\* C9: a peek changes no state, and a peek of a holder right after a peek of
\* the same holder returns the same value.
C9_PeekIsPure ==
    [][IsPeek(last') =>
          /\ UNCHANGED <<ledgerVars, policyVars>>
          /\ (IsPeek(last) /\ last.who = last'.who) =>
                (last'.ret = last.ret /\ last'.result = last.result)]_vars

\* C9 witness: a peek has returned a positive amount for a holder who has
\* claimed before.
C9_Witness ==
    /\ IsPeek(last) /\ last.result = "ok" /\ last.ret > 0
    /\ _reflectionClaimed[last.who] > 0

\* The percentages on which the validation of createToken is tabulated.
Uint8Grid == {0, 1, 50, 99, 100, 101, 127, 128, 155, 156, 200, MaxUint8}

\* C10: a create whose tax + reflection + burn exceeds 100 is rejected and
\* creates no ledger, for every combination of 8-bit values, those whose sum
\* exceeds 255 included. The validation is a function of the request alone,
\* so it is tabulated on the steps that leave the empty factory; on every
\* step, a refused create leaves the factory as it was and an accepted one
\* adds a ledger whose three percentages sum to at most 100.
C10_FeeSumRejected ==
    [][/\ (last.op = "constructor") =>
             \A t \in Uint8Grid, r \in Uint8Grid, b \in Uint8Grid, w \in {Zero, "W"} :
                (t + r + b > 100) =>
                   LET made == createToken(FactoryStorage, "A",
                                           FactoryArgs("Token", "TKN", 1000, t, w, r, b))
                   IN made.err # "" /\ made.tokens = tokens
       /\ (last'.op = "createToken") =>
             IF last'.result = "ok"
             THEN /\ Len(tokens') = Len(tokens) + 1
                  /\ LET made == tokens'[Len(tokens')]
                     IN made.taxPercent + made.REFLECTION_PERCENT
                           + made.BURN_PERCENT <= 100
             ELSE UNCHANGED factoryVars]_vars

\* C10 witness: a request whose percentages sum beyond the 8-bit range was
\* refused by a factory that had accepted a request summing to exactly 100.
C10_Witness ==
    /\ last.op = "createToken" /\ last.result = Panic
    /\ Len(deployedTokens) = 1 /\ Len(tokens) = 1
    /\ tokens[1].taxPercent + tokens[1].REFLECTION_PERCENT + tokens[1].BURN_PERCENT = 100

\* What the claim requires of a request for it to be accepted.
ValidRequest(a) ==
    /\ Len(a.name) > 0 /\ Len(a.symbol) > 0
    /\ a.initialSupply > 0
    /\ a.taxPercent \in 0..100 /\ a.reflectionPercent \in 0..100
    /\ a.burnPercent \in 0..100
    /\ a.taxPercent + a.reflectionPercent + a.burnPercent <= 100
    /\ a.initialOwner # Zero
    /\ (a.taxPercent > 0) => (a.taxWallet # Zero)

\* The requests on which the validation of createToken is tabulated.
RequestGrid ==
    {[FactoryArgs(n, s, v, t, w, r, b) EXCEPT !.initialOwner = o] :
        n \in {"", "Token"}, s \in {"", "TKN"}, v \in {0, 1, 1000},
        t \in Uint8Grid, w \in {Zero, "W"}, r \in Uint8Grid, b \in Uint8Grid,
        o \in {Zero, "O"}}

\* C11: create succeeds exactly when name and symbol are non-empty, the
\* supply is positive, each percent is in [0,100], their sum is at most 100
\* (exactly 100 is accepted), the owner is non-null and a tax account is
\* given whenever taxPercent > 0; otherwise it fails. The validation is a
\* function of the request alone: it is tabulated once, on the step that
\* asks the empty factory for its count, and every ledger a step creates
\* satisfies the conditions.
C11_CreateIffValid ==
    [][/\ (last.op = "constructor" /\ last'.op = "getTotalTokens") =>
             \A a \in RequestGrid :
                (createToken(FactoryStorage, "A", a).err = "") <=> ValidRequest(a)
       /\ (last'.op = "createToken" /\ last'.result = "ok") =>
             LET made == tokens'[Len(tokens')]
             IN ValidRequest([name |-> made.name, symbol |-> made.symbol,
                              initialSupply |-> made.totalSupply,
                              taxPercent |-> made.taxPercent,
                              taxWallet |-> made.taxWallet,
                              reflectionPercent |-> made.REFLECTION_PERCENT,
                              burnPercent |-> made.BURN_PERCENT,
                              initialOwner |-> made.owner])]_vars

\* C11 witness: a request whose percentages sum to exactly 100 (a tax of
\* 100 with a tax account) has just been accepted.
C11_Witness ==
    /\ last.op = "createToken" /\ last.result = "ok"
    /\ LET made == tokens[Len(tokens)]
       IN /\ made.taxPercent = 100 /\ made.taxWallet = "W"
          /\ made.REFLECTION_PERCENT = 0 /\ made.BURN_PERCENT = 0

\* C12: a create that fails leaves the ledger count, the global list, every
\* creator's list and every existing ledger unchanged.
C12_FailedCreateChangesNothing ==
    [][(last'.op = "createToken" /\ last'.result # "ok") =>
          /\ Len(deployedTokens') = Len(deployedTokens)
          /\ deployedTokens' = deployedTokens
          /\ \A c \in Holders : creatorTokens'[c] = creatorTokens[c]
          /\ Len(tokens') = Len(tokens)
          /\ \A i \in 1..Len(tokens) : tokens'[i] = tokens[i]
          /\ UNCHANGED <<ledgerVars, policyVars>>]_vars

\* C12 witness: a request was refused by the constructor of the new ledger,
\* after the checks of the factory itself, on a factory holding one ledger.
C12_Witness ==
    /\ last.op = "createToken"
    /\ last.result = "Initial supply must be > 0"
    /\ Len(deployedTokens) = 1 /\ Len(tokens) = 1
    /\ \E c \in Holders : creatorTokens[c] = <<1>>

\* C13: after a successful create, the new ledger's total supply is the
\* initial supply, the initial owner's balance is the initial supply, every
\* other balance (reserve included) is 0, the recorded owner is the initial
\* owner, and the new id is the last element of the global list and of the
\* calling creator's list. The request is read from the TokenDeployed event.
C13_CreateEffect ==
    [][(last'.op = "createToken" /\ last'.result = "ok") =>
          LET request == events'[Len(events')]
              id == last'.ret
              made == tokens'[id]
          IN /\ request.name = "TokenDeployed" /\ request.tokenAddress = id
             /\ id = Len(tokens) + 1 /\ Len(tokens') = id
             /\ made.totalSupply = request.initialSupply
             /\ made.balances[request.initialOwner] = request.initialSupply
             /\ \A acct \in Recipients \ {request.initialOwner} :
                   made.balances[acct] = 0
             /\ made.owner = request.initialOwner
             /\ deployedTokens' = Append(deployedTokens, id)
             /\ creatorTokens' =
                   [creatorTokens EXCEPT ![request.creator] = Append(@, id)]
             /\ \A i \in 1..Len(tokens) : tokens'[i] = tokens[i]]_vars

\* C13 witness: the second ledger of the factory, created by another caller
\* than the first and owned by an account that is not its creator.
C13_Witness ==
    /\ last.op = "createToken" /\ last.result = "ok" /\ last.ret = 2
    /\ deployedTokens = <<1, 2>>
    /\ creatorTokens["A"] = <<1>> /\ creatorTokens["O"] = <<2>>
    /\ tokens[2].owner = "A" /\ tokens[2].totalSupply = 7
    /\ tokens[2].balances["A"] = 7 /\ tokens[2].balances["O"] = 0

\* q is p with zero or more elements appended.
Extends(q, p) == Len(q) >= Len(p) /\ \A i \in 1..Len(p) : q[i] = p[i]

\* C14: getTokenAtIndex(index) fails with "Index out of bounds" when index is
\* at least the count and otherwise returns the ledger of the (index+1)-th
\* successful create (ids are given in creation order, starting at 1);
\* getCreatorTokens lists a creator's ledgers in creation order; both lists
\* only grow at the end, and the count grows by one with each successful
\* create and with nothing else.
C14_RegistryLists ==
    [][/\ Extends(deployedTokens', deployedTokens)
       /\ \A c \in Holders : Extends(creatorTokens'[c], creatorTokens[c])
       /\ Len(deployedTokens') = Len(deployedTokens)
             + (IF last'.op = "createToken" /\ last'.result = "ok" THEN 1 ELSE 0)
       /\ \A c \in Holders : \A i, j \in 1..Len(creatorTokens'[c]) :
             (i < j) => (creatorTokens'[c][i] < creatorTokens'[c][j])
       /\ (last'.op = "getTotalTokens") => (last'.ret = Len(deployedTokens))
       /\ (last'.op = "getCreatorTokens") => (last'.ret = creatorTokens[last'.who])
       /\ (last'.op = "getTokenAtIndex") =>
             \A index \in IndexInputs :
                GetTokenAtIndex(index) =>
                   IF index >= Len(deployedTokens)
                   THEN last'.result = "Index out of bounds"
                   ELSE last'.result = "ok" /\ last'.ret = index + 1]_vars

\* C14 witness: the second position of a list of two has been read.
C14_Witness ==
    /\ last.op = "getTokenAtIndex" /\ last.result = "ok" /\ last.ret = 2
    /\ Len(deployedTokens) = 2
    /\ creatorTokens["A"] = <<2>> /\ creatorTokens["O"] = <<1>>

InsufficientBalance == "ERC20: transfer amount exceeds balance"

\* A transfer or transferFrom that failed has changed nothing.
FailedTransferChangesNothing ==
    (last'.op \in {"transfer", "transferFrom"} /\ last'.result # "ok")
       => UNCHANGED <<ledgerVars, policyVars>>

\* C15 as stated: a transfer or transferFrom of more than the sender's
\* balance to any account fails with InsufficientBalance and changes
\* nothing; a transfer of exactly the sender's balance succeeds.
C15_OverdrawInsufficientBalance ==
    /\ [](\A s \in Holders, t \in Accounts : \A a \in OverdrawInputs(s) :
            /\ (a > _balances[s]) =>
                  /\ transfer(Storage, s, t, a).err = InsufficientBalance
                  /\ \A sp \in Spenders :
                        transferFrom(Storage, sp, s, t, a).err = InsufficientBalance
            /\ (a = _balances[s]) => (transfer(Storage, s, t, a).err = ""))
    /\ [][FailedTransferChangesNothing]_vars

\* C15 amended: a transfer or transferFrom of more than the sender's balance
\* to any account always fails and changes nothing; the failure is
\* InsufficientBalance whenever the fee products fit in uint256 and, for
\* transferFrom, the allowance covers the amount (otherwise it is the
\* arithmetic panic or the allowance error); a transfer of exactly the
\* sender's balance succeeds whenever the fee products fit in uint256.
C15_OverdrawFails ==
    /\ [](\A s \in Holders, t \in Accounts : \A a \in OverdrawInputs(s) :
            /\ (a > _balances[s]) =>
                  /\ transfer(Storage, s, t, a).err # ""
                  /\ (~TransferSplit(s, a).overflow) =>
                        (transfer(Storage, s, t, a).err = InsufficientBalance)
                  /\ \A sp \in Spenders :
                        /\ transferFrom(Storage, sp, s, t, a).err # ""
                        /\ (~TransferFromSplit(s, a).overflow
                              /\ _allowances[s][sp] >= a) =>
                              (transferFrom(Storage, sp, s, t, a).err
                                  = InsufficientBalance)
            /\ (a = _balances[s] /\ ~TransferSplit(s, a).overflow) =>
                  (transfer(Storage, s, t, a).err = ""))
    /\ [][FailedTransferChangesNothing]_vars

\* C15 witness: under burn, reflection and tax, a transfer of one more than
\* the balance was refused for lack of balance (the three fees fit in the
\* balance, the net does not).
C15_Witness ==
    /\ last.op = "transfer" /\ last.result = InsufficientBalance
    /\ taxPercent = 10 /\ REFLECTION_PERCENT = 10 /\ BURN_PERCENT = 10
    /\ HAS_REFLECTION /\ HAS_BURN
    /\ _balances["A"] = 729 /\ _balances[This] = 90 /\ burned = 100

InvalidRecipient == "ERC20: transfer to the zero address"

\* C16 as stated: a transfer whose recipient is the null account always
\* fails with InvalidRecipient and changes nothing, also when the net amount
\* to deliver is 0.
C16_NullRecipientInvalid ==
    /\ [](\A s \in Holders : \A a \in OverdrawInputs(s) \cup {0} :
            transfer(Storage, s, Zero, a).err = InvalidRecipient)
    /\ [][FailedTransferChangesNothing]_vars

\* C16 amended: a transfer whose recipient is the null account always fails
\* and changes nothing; the failure is InvalidRecipient whenever the amount
\* does not exceed the sender's balance and the fee products fit in uint256,
\* also when the net amount to deliver is 0 (amount 0, or fees of 100%).
C16_NullRecipientFails ==
    /\ [](\A s \in Holders : \A a \in OverdrawInputs(s) \cup {0} :
            LET sp == TransferSplit(s, a)
                r == transfer(Storage, s, Zero, a)
            IN /\ r.err # ""
               /\ (a <= _balances[s] /\ ~sp.overflow) => (r.err = InvalidRecipient))
    /\ [][FailedTransferChangesNothing]_vars

\* C16 witness: under a burn of 100% the holder of the whole supply sent it
\* to the null account; the net to deliver was 0, the call was refused and
\* the burn of the fee did not stay.
C16_Witness ==
    /\ last.op = "transfer" /\ last.result = InvalidRecipient
    /\ HAS_BURN /\ BURN_PERCENT = 100
    /\ _balances["O"] = initialSupply /\ burned = 0
    /\ ~TransferSplit("O", _balances["O"]).overflow
    /\ TransferSplit("O", _balances["O"]).netAmount = 0

\* The balances after the Transfer events of evs, applied in order to bal.
RECURSIVE ReplayTransfers(_, _)
ReplayTransfers(bal, evs) ==
    IF evs = <<>> THEN bal
    ELSE LET ev == Head(evs)
             debited == IF ev.name = "Transfer" /\ ev.from # Zero
                        THEN Credit(bal, ev.from, 0 - ev.value) ELSE bal
             credited == IF ev.name = "Transfer" /\ ev.to # Zero
                         THEN Credit(debited, ev.to, ev.value) ELSE debited
         IN ReplayTransfers(credited, Tail(evs))

\* The total of the field of the events of evs that have the name.
RECURSIVE EventTotal(_, _, _)
EventTotal(evs, name, toZero) ==
    IF evs = <<>> THEN 0
    ELSE LET ev == Head(evs)
         IN (IF ev.name = name /\ (~toZero \/ ev.to = Zero)
             THEN (IF name = "Transfer" THEN ev.value ELSE ev.amount) ELSE 0)
            + EventTotal(Tail(evs), name, toZero)

\* C17: a transfer and a claim are atomic. A failed one leaves the ledger
\* exactly as it was. A successful one has applied every movement it
\* announced: the balances are the old balances with all its Transfer events
\* applied, the supply fell by what went to the null account, the reflection
\* counter rose by what was pooled, a transfer ends with the net movement
\* (TokensTransferred) and a claim has moved the mark together with the payout.
C17_Atomic ==
    [][(last'.op \in {"transfer", "transferFrom", "claim"}) =>
          IF last'.result # "ok"
          THEN UNCHANGED <<ledgerVars, policyVars>>
          ELSE /\ _balances' = ReplayTransfers(_balances, events')
               /\ _totalSupply' = _totalSupply - EventTotal(events', "Transfer", TRUE)
               /\ burned' = burned + EventTotal(events', "TokensBurned", FALSE)
               /\ EventTotal(events', "Transfer", TRUE)
                     = EventTotal(events', "TokensBurned", FALSE)
               /\ _totalReflectionDistributed' = _totalReflectionDistributed
                     + EventTotal(events', "ReflectionAdded", FALSE)
               /\ events'[Len(events')].name =
                     (IF last'.op = "claim" THEN "ReflectionClaimed"
                      ELSE "TokensTransferred")
               /\ (last'.op = "claim") =>
                     /\ _reflectionClaimed'[last'.who]
                           = _reflectionClaimed[last'.who] + last'.ret
                     /\ _balances'[last'.who] = _balances[last'.who] + last'.ret
               /\ (last'.op # "claim") => UNCHANGED _reflectionClaimed]_vars

\* C17 witness: under 10/10/10 a transfer of the whole supply to the null
\* account was refused at its last movement, after the burn, the reflection
\* and the tax movements, and none of them stayed.
C17_Witness ==
    /\ last.op = "transfer" /\ last.result = InvalidRecipient
    /\ taxPercent = 10 /\ REFLECTION_PERCENT = 10 /\ BURN_PERCENT = 10
    /\ HAS_REFLECTION /\ HAS_BURN
    /\ _balances["O"] = 1000 /\ _totalSupply = 1000 /\ burned = 0
    /\ _balances[This] = 0 /\ _balances["W"] = 0
    /\ LET r == transfer(Storage, "O", Zero, 1000)
       IN r.err = InvalidRecipient /\ r.burned = 100 /\ r.bal[This] = 90
             /\ r.bal["W"] = 81

\* q is x * p / 100 rounded down.
IsFloorPercent(q, x, p) == 100 * q <= x * p /\ x * p < 100 * (q + 1)

\* C18: a transfer sent by the tax wallet pays no tax, whatever taxPercent
\* is, while its burn and its reflection are computed and applied when they
\* are enabled; a transfer of any other sender, with taxPercent > 0 and a tax
\* wallet configured, pays the tax wallet floor(net * taxPercent / 100), net
\* being the amount after burn and reflection.
C18_TaxWalletExempt ==
    /\ [](\A s \in Holders : \A a \in 0 .. _balances[s] :
             LET sp == TransferSplit(s, a)
                 net == a - sp.burnAmount - sp.reflectionAmount
             IN /\ IF HAS_BURN THEN IsFloorPercent(sp.burnAmount, a, BURN_PERCENT)
                   ELSE sp.burnAmount = 0
                /\ IF HAS_REFLECTION
                   THEN IsFloorPercent(sp.reflectionAmount, a - sp.burnAmount,
                                       REFLECTION_PERCENT)
                   ELSE sp.reflectionAmount = 0
                /\ (s = taxWallet) => sp.taxAmount = 0
                /\ (s # taxWallet /\ taxPercent > 0 /\ taxWallet # Zero) =>
                      IsFloorPercent(sp.taxAmount, net, taxPercent))
    /\ [][(last'.op = "transfer" /\ last'.result = "ok") =>
             LET done == events'[Len(events')]
                 s == done.from
                 a == _balances[s] - _balances'[s]
                         + (IF done.to = s THEN done.amount ELSE 0)
                 burnPart == burned' - burned
                 reflectPart == _totalReflectionDistributed'
                                   - _totalReflectionDistributed
             IN IF s = taxWallet
                THEN /\ done.taxAmount = 0
                     /\ a = burnPart + reflectPart + done.amount
                     /\ IF HAS_BURN THEN IsFloorPercent(burnPart, a, BURN_PERCENT)
                        ELSE burnPart = 0
                     /\ IF HAS_REFLECTION
                        THEN IsFloorPercent(reflectPart, a - burnPart,
                                            REFLECTION_PERCENT)
                        ELSE reflectPart = 0
                     /\ _totalSupply' = _totalSupply - burnPart
                     /\ _balances'[This] = _balances[This] + reflectPart
                ELSE (taxPercent > 0 /\ taxWallet # Zero) =>
                        /\ IsFloorPercent(done.taxAmount,
                                          a - burnPart - reflectPart, taxPercent)
                        /\ _balances'[taxWallet] = _balances[taxWallet]
                              + done.taxAmount
                              + (IF done.to = taxWallet THEN done.amount ELSE 0)]_vars

\* C18 witness: the owner is the tax wallet at 33%, with burn and reflection
\* at 10%; its transfer of 100 burned 10, pooled 9 and delivered 81 untaxed.
C18_Witness ==
    /\ last.op = "transfer" /\ last.result = "ok"
    /\ taxWallet = "O" /\ taxPercent = 33
    /\ HAS_BURN /\ BURN_PERCENT = 10 /\ HAS_REFLECTION /\ REFLECTION_PERCENT = 10
    /\ initialSupply = 100 /\ burned = 10 /\ _totalSupply = 90
    /\ _balances[This] = 9 /\ _balances["O"] = 0 /\ _balances["A"] = 81

\* C19: with burn enabled at 100% and tax and reflection at 0, a successful
\* transfer of amt leaves the recipient's balance unchanged, lowers the
\* sender's balance and the total supply by exactly amt, and leaves the
\* reserve, the tax wallet and the reflection counter unchanged.
FullBurnPolicy ==
    HAS_BURN /\ BURN_PERCENT = 100 /\ taxPercent = 0 /\ REFLECTION_PERCENT = 0

C19_FullBurn ==
    /\ [](FullBurnPolicy =>
            \A s \in Holders, t \in Holders :
               \A a \in (0 .. _balances[s]) \cup {MaxUint256} :
                  LET r == transfer(Storage, s, t, a)
                  IN (r.err = "") =>
                        /\ r.bal = Credit(_balances, s, 0 - a)
                        /\ r.ts = _totalSupply - a
                        /\ r.burned = burned + a
                        /\ r.dist = _totalReflectionDistributed)
    /\ [][(FullBurnPolicy /\ last'.op = "transfer" /\ last'.result = "ok") =>
             LET done == events'[Len(events')]
                 amt == burned' - burned
             IN /\ done.amount = 0 /\ done.taxAmount = 0
                /\ _balances' = Credit(_balances, done.from, 0 - amt)
                /\ (done.to # done.from) => _balances'[done.to] = _balances[done.to]
                /\ _totalSupply' = _totalSupply - amt
                /\ _balances'[This] = _balances[This]
                /\ (taxWallet # done.from) => _balances'[taxWallet] = _balances[taxWallet]
                /\ UNCHANGED <<_totalReflectionDistributed, _reflectionClaimed>>]_vars

\* C19 witness: under a 100% burn the owner sent its 100 tokens; the
\* recipients hold nothing, the supply is 0 and all 100 were burned.
C19_Witness ==
    /\ FullBurnPolicy /\ last.op = "transfer" /\ last.result = "ok"
    /\ initialSupply = 100 /\ burned = 100 /\ _totalSupply = 0
    /\ \A h \in Accounts : _balances[h] = 0
    /\ _totalReflectionDistributed = 0

\* The events of a transfer that carry its fee split, in emission order.
FeeEvents(evs) ==
    SelectSeq(evs, LAMBDA ev : ev.name \in {"TokensBurned", "ReflectionAdded",
                                           "TokensTransferred"})

\* C20 as stated: every successful transfer, also of amount 0, emits
\* TokensBurned(sender, burnAmt), then ReflectionAdded(reflectAmt), then
\* TokensTransferred(sender, to, net, taxAmt), with zero-valued events when
\* the corresponding amount is 0, and a transfer of 0 changes no balance.
C20_ThreeEventsAlways ==
    [][(last'.op = "transfer" /\ last'.result = "ok") =>
          LET fe == FeeEvents(events')
          IN /\ Len(fe) = 3
             /\ fe[1].name = "TokensBurned" /\ fe[1].from = fe[3].from
             /\ fe[1].amount = burned' - burned
             /\ fe[2].name = "ReflectionAdded"
             /\ fe[2].amount = _totalReflectionDistributed'
                                  - _totalReflectionDistributed
             /\ fe[3].name = "TokensTransferred"]_vars

\* C20 as the code has it: every successful transfer ends with
\* TokensTransferred(sender, to, net, taxAmt); TokensBurned(sender, burnAmt)
\* precedes it exactly when burnAmt > 0, and ReflectionAdded(reflectAmt) comes
\* between the two exactly when reflectAmt > 0; the four parts add up to what
\* left the sender. A transfer of amount 0 succeeds, emits only
\* TokensTransferred(sender, to, 0, 0) and changes no balance.
C20_EventOrder ==
    /\ [](\A s \in Holders, t \in Accounts :
             LET r == transfer(Storage, s, t, 0)
             IN /\ r.err = "" /\ r.bal = _balances /\ r.ts = _totalSupply
                /\ FeeEvents(r.events)
                      = <<[name |-> "TokensTransferred", from |-> s, to |-> t,
                           amount |-> 0, taxAmount |-> 0]>>)
    /\ [][(last'.op = "transfer" /\ last'.result = "ok") =>
             LET fe == FeeEvents(events')
                 done == fe[Len(fe)]
                 burnPart == burned' - burned
                 reflectPart == _totalReflectionDistributed'
                                   - _totalReflectionDistributed
             IN /\ done.name = "TokensTransferred"
                /\ fe = (IF burnPart > 0
                         THEN <<[name |-> "TokensBurned", from |-> done.from,
                                 amount |-> burnPart]>>
                         ELSE <<>>)
                        \o (IF reflectPart > 0
                            THEN <<[name |-> "ReflectionAdded", holder |-> This,
                                    amount |-> reflectPart]>>
                            ELSE <<>>)
                        \o <<done>>
                /\ (done.to # done.from) =>
                      _balances[done.from] - _balances'[done.from]
                         = burnPart + reflectPart + done.taxAmount + done.amount
                /\ (done.taxAmount > 0) =>
                      _balances'[taxWallet] >= _balances[taxWallet] + done.taxAmount]_vars

\* C20 witness: with burn and reflection enabled at 10%, a transfer of 0 by
\* the owner succeeded and emitted only the zero-valued TokensTransferred.
C20_Witness ==
    /\ last.op = "transfer" /\ last.result = "ok"
    /\ HAS_BURN /\ BURN_PERCENT = 10 /\ HAS_REFLECTION /\ REFLECTION_PERCENT = 10
    /\ Len(FeeEvents(events)) = 1
    /\ FeeEvents(events)[1].name = "TokensTransferred"
    /\ FeeEvents(events)[1].from = "O"
    /\ FeeEvents(events)[1].amount = 0 /\ FeeEvents(events)[1].taxAmount = 0
    /\ _balances["O"] = initialSupply /\ burned = 0

\* Amounts within the balance of s that a transfer to oneself is tried with.
SelfAmounts(s) == {0, 1, _balances[s] \div 2, _balances[s]} \cap (0 .. _balances[s])

\* What the claim says a transfer of a by s to itself leaves in r: the
\* sender lost the three fees, the reserve and the tax wallet received
\* theirs, and the supply fell by the burn.
SelfTransferPost(s, a, r) ==
    LET burnPart == IF HAS_BURN THEN (a * BURN_PERCENT) \div 100 ELSE 0
        reflectPart == IF HAS_REFLECTION
                       THEN ((a - burnPart) * REFLECTION_PERCENT) \div 100
                       ELSE 0
        taxPart == IF taxPercent > 0 /\ taxWallet # Zero /\ s # taxWallet
                   THEN ((a - burnPart - reflectPart) * taxPercent) \div 100
                   ELSE 0
    IN /\ r.bal = Credit(Credit(Credit(_balances, s,
                                       0 - (burnPart + reflectPart + taxPart)),
                                This, reflectPart),
                         taxWallet, taxPart)
       /\ r.ts = _totalSupply - burnPart
       /\ r.burned = burned + burnPart
       /\ r.dist = _totalReflectionDistributed + reflectPart

\* A committed transfer to oneself moved exactly its fees.
SelfTransferStep ==
    (last'.op = "transfer" /\ last'.result = "ok"
        /\ events'[Len(events')].to = events'[Len(events')].from) =>
       LET done == events'[Len(events')]
           s == done.from
           burnPart == burned' - burned
           reflectPart == _totalReflectionDistributed' - _totalReflectionDistributed
       IN /\ _balances' = Credit(Credit(Credit(_balances, s,
                                    0 - (burnPart + reflectPart + done.taxAmount)),
                                    This, reflectPart),
                                 taxWallet, done.taxAmount)
          /\ _totalSupply' = _totalSupply - burnPart

\* C21 as stated: a transfer with to == sender succeeds whenever the amount
\* is within the sender's balance, and fees still apply: the sender's
\* balance falls by exactly burnAmt + reflectAmt + taxAmt, the reserve and
\* the tax wallet receive reflectAmt and taxAmt, the supply falls by burnAmt.
C21_SelfTransferAlwaysLegal ==
    /\ [](\A s \in Holders : \A a \in SelfAmounts(s) :
             LET r == transfer(Storage, s, s, a)
             IN r.err = "" /\ SelfTransferPost(s, a, r))
    /\ [][SelfTransferStep]_vars

\* C21 amended: the same, whenever the fee products amount * percent fit in
\* uint256; a transfer to oneself whose fee product overflows is aborted.
C21_SelfTransferPaysFees ==
    /\ [](\A s \in Holders : \A a \in SelfAmounts(s) :
             LET r == transfer(Storage, s, s, a)
             IN IF TransferSplit(s, a).overflow THEN r.err = Panic
                ELSE r.err = "" /\ SelfTransferPost(s, a, r))
    /\ [][SelfTransferStep]_vars

\* C21 witness: under 10/10/10 the owner sent its 1000 tokens to itself and
\* kept 729: 100 burned, 90 pooled, 81 taxed.
C21_Witness ==
    /\ last.op = "transfer" /\ last.result = "ok"
    /\ taxPercent = 10 /\ REFLECTION_PERCENT = 10 /\ BURN_PERCENT = 10
    /\ _balances["O"] = 729 /\ _balances[This] = 90 /\ _balances["W"] = 81
    /\ _balances["A"] = 0 /\ _totalSupply = 900 /\ burned = 100

\* C22: the mark _reflectionClaimed of every holder starts at 0, changes only
\* in a successful claim of that holder, never decreases, and is the largest
\* entitlement at which the holder was paid: a successful claim sets it to
\* the entitlement balance * reserve / supply of the state it was made in,
\* which exceeds the mark before, and pays the difference.
C22_HighWaterMark ==
    /\ [](/\ (last.op = "constructor") =>
                \A h \in DOMAIN _reflectionClaimed : _reflectionClaimed[h] = 0
          /\ \A h \in DOMAIN _reflectionClaimed : _reflectionClaimed[h] >= 0)
    /\ [][IF last'.op = "claim" /\ last'.result = "ok"
          THEN LET h == last'.who
                   entitlement == (_balances[h] * _balances[This]) \div _totalSupply
               IN /\ _reflectionClaimed'[h] = entitlement
                  /\ entitlement > _reflectionClaimed[h]
                  /\ last'.ret = entitlement - _reflectionClaimed[h]
                  /\ \A g \in DOMAIN _reflectionClaimed \ {h} :
                        _reflectionClaimed'[g] = _reflectionClaimed[g]
          ELSE UNCHANGED _reflectionClaimed]_vars

\* C22 witness: the tax wallet was paid at entitlement 44 and then at 82;
\* its mark is 82, the larger of the two, and its balance holds both
\* payouts: 47 + 44 + 38.
C22_Witness ==
    /\ last.op = "claim" /\ last.result = "ok" /\ last.who = "W"
    /\ _reflectionClaimed["W"] = 82 /\ last.ret = 38
    /\ _balances["W"] = 129 /\ _balances[This] = 871

\* C23: the total supply is strictly positive at creation (a supply of 0 is
\* refused) and never increases; it decreases only in a successful transfer
\* or transferFrom with burn enabled, by exactly the burn amount of that
\* transfer, floor(amount * BURN_PERCENT / 100); claim, approve, the
\* ownership operations and every failed operation leave it unchanged.
C23_SupplyOnlyBurns ==
    /\ [](/\ (last.op = "constructor") =>
                /\ _totalSupply > 0 /\ _totalSupply = initialSupply
                /\ \A a \in OwnerArgs :
                      constructor([a EXCEPT !.initialSupply = 0]).err
                         = "Initial supply must be > 0"
          /\ _totalSupply <= initialSupply)
    /\ [][/\ _totalSupply' <= _totalSupply
          /\ (last'.op \notin {"transfer", "transferFrom"} \/ last'.result # "ok"
                 \/ ~HAS_BURN) => _totalSupply' = _totalSupply
          /\ (last'.op \in {"transfer", "transferFrom"} /\ last'.result = "ok") =>
                LET done == events'[Len(events')]
                    burnAmt == EventTotal(events', "TokensBurned", FALSE)
                    amount == burnAmt + EventTotal(events', "ReflectionAdded", FALSE)
                                 + done.taxAmount + done.amount
                IN /\ _totalSupply' = _totalSupply - burnAmt
                   /\ IF HAS_BURN THEN IsFloorPercent(burnAmt, amount, BURN_PERCENT)
                      ELSE burnAmt = 0]_vars

\* C23 witness: ownership moved to A after a transfer of 1000 under a 10%
\* burn; the supply is 900 and the move of ownership left it there.
C23_Witness ==
    /\ last.op = "transferOwnership" /\ last.result = "ok" /\ _owner = "A"
    /\ HAS_BURN /\ BURN_PERCENT = 10
    /\ initialSupply = 1000 /\ _totalSupply = 900 /\ burned = 100

\* C24: after construction the fee policy (taxPercent, taxWallet,
\* REFLECTION_PERCENT, BURN_PERCENT, HAS_REFLECTION, HAS_BURN) is the one the
\* constructor was given and no transfer, transferFrom, claim, approve or
\* ownership operation changes it, while the owner can change.
C24_PolicyFixed ==
    /\ [](\E a \in OwnerArgs :
             /\ initialSupply = a.initialSupply
             /\ getFeePolicy = [taxPercent |-> a.taxPercent, taxWallet |-> a.taxWallet,
                                reflectionPercent |-> a.reflectionPercent,
                                burnPercent |-> a.burnPercent,
                                enableReflection |-> a.enableReflection,
                                enableBurn |-> a.enableBurn])
    /\ [][getFeePolicy' = getFeePolicy /\ initialSupply' = initialSupply]_vars

\* C24 witness: after a taxed transfer the owner handed the contract to A,
\* and the policy is still 10/10/10 with tax wallet W.
C24_Witness ==
    /\ last.op = "transferOwnership" /\ last.result = "ok" /\ last.who = "O"
    /\ _owner = "A" /\ _balances["W"] = 81
    /\ getFeePolicy = [taxPercent |-> 10, taxWallet |-> "W", reflectionPercent |-> 10,
                       burnPercent |-> 10, enableReflection |-> TRUE,
                       enableBurn |-> TRUE]

\* C25: mint, burn and burnFrom fail for every caller, the owner included,
\* and every argument, and leave the balances, the total supply and the
\* allowances as they were.
C25_MintBurnDisabled ==
    /\ [](\A c \in Holders, t \in Recipients, a \in SupplyInputs :
             /\ mint(Storage, c, t, a).err = "Minting is permanently disabled"
             /\ burn(Storage, c, a).err = "Burning is not allowed"
             /\ burnFrom(Storage, c, t, a).err = "Burning is not allowed")
    /\ [][(last'.op \in {"mint", "burn", "burnFrom"}) =>
             /\ last'.result = (IF last'.op = "mint"
                                THEN "Minting is permanently disabled"
                                ELSE "Burning is not allowed")
             /\ UNCHANGED <<_balances, _totalSupply, _allowances, burned,
                            _reflectionClaimed, _totalReflectionDistributed,
                            _owner>>]_vars

\* C25 witness: the owner itself, holding the whole supply and having
\* approved a spender, called mint and was refused.
C25_Witness ==
    /\ last.op = "mint" /\ last.who = "O" /\ _owner = "O"
    /\ last.result = "Minting is permanently disabled"
    /\ _balances["O"] = initialSupply /\ _totalSupply = initialSupply
    /\ _allowances["O"]["A"] = 1

\* C26: minting and burning are permanently disabled on a SecureToken: after
\* construction no sequence of operations changes its total supply, which
\* always equals the initial supply.
C26_SupplyNeverChanges ==
    /\ tokens[1].totalSupply = initialSupply
    /\ SumOver(tokens[1].balances, Accounts) = initialSupply

\* C27: the flattened SecureToken is an exact behavioural copy of
\* contracts/SecureToken.sol: constructed with the same arguments and given
\* the same transfer, transferFrom, claimReflectionRewards and
\* getPendingReflection calls, both succeed or fail together, return the
\* same values and hold the same balances and total supply.
C27_FlattenedIsExactCopy ==
    /\ (last.result = "ok") <=> (last.result2 = "ok")
    /\ last.ret = last.ret2
    /\ _balances = tokens[1].balances
    /\ _totalSupply = tokens[1].totalSupply

\* The ledger part of two call results is the same: balances, supply,
\* reflection counter, marks and the fee events.
SameLedgerEffect(x, y) ==
    /\ x.bal = y.bal /\ x.ts = y.ts /\ x.dist = y.dist /\ x.claimed = y.claimed
    /\ FeeEvents(x.events) = FeeEvents(y.events)

\* What spending `amount` leaves of the allowance table allow.
Spent(allow, from, spender, amount) ==
    IF allow[from][spender] = MaxUint256 THEN allow
    ELSE [allow EXCEPT ![from][spender] = @ - amount]

\* C28: transferFrom(from, to, amount) applies the same split and the same
\* balance, supply, reserve and counter updates as transfer(to, amount)
\* called by `from` in the same state, and fails when that transfer fails;
\* the two differ only in the allowance transferFrom spends (and needs).
\* Checked of the flattened copy and of SecureToken.sol.
C28_TransferFromAsTransfer ==
    /\ [](\A sp \in Holders, f \in Holders, t \in Recipients :
             \A a \in AmountInputs(f) \cup {1} :
                LET x == transferFrom(Storage, sp, f, t, a)
                    y == transfer(Storage, f, t, a)
                    x2 == SecureToken_transferFrom(tokens[1], sp, f, t, a)
                    y2 == SecureToken_transfer(tokens[1], f, t, a)
                IN /\ TransferFromSplit(f, a) = TransferSplit(f, a)
                   /\ IF _allowances[f][sp] < a
                      THEN x.err = "ERC20: insufficient allowance"
                      ELSE /\ x.err = y.err
                           /\ (x.err = "") =>
                                 /\ SameLedgerEffect(x, y)
                                 /\ x.allow = Spent(_allowances, f, sp, a)
                                 /\ y.allow = _allowances
                   /\ IF tokens[1].allowances[f][sp] < a
                      THEN x2.err = "ERC20: insufficient allowance"
                      ELSE /\ x2.err = y2.err
                           /\ (x2.err = "") =>
                                 /\ SameLedgerEffect(x2, y2)
                                 /\ x2.queued = y2.queued
                                 /\ x2.allow = Spent(tokens[1].allowances, f, sp, a)
                                 /\ y2.allow = tokens[1].allowances)
    /\ [][(last'.op = "transferFrom" /\ last'.result = "ok") =>
             LET done == events'[Len(events')]
                 amount == EventTotal(events', "TokensBurned", FALSE)
                              + EventTotal(events', "ReflectionAdded", FALSE)
                              + done.taxAmount + done.amount
                 y == transfer(Storage, done.from, done.to, amount)
             IN /\ y.err = ""
                /\ _balances' = y.bal /\ _totalSupply' = y.ts
                /\ _totalReflectionDistributed' = y.dist
                /\ _reflectionClaimed' = y.claimed
                /\ FeeEvents(events') = FeeEvents(y.events)]_vars

\* C28 witness: with an unlimited allowance, A moved the owner's 1000 tokens
\* to itself under 10/10/10: 100 burned, 90 pooled, 81 taxed, 729 received.
C28_Witness ==
    /\ last.op = "transferFrom" /\ last.result = "ok"
    /\ taxPercent = 10 /\ REFLECTION_PERCENT = 10 /\ BURN_PERCENT = 10
    /\ _balances["A"] = 729 /\ _balances[This] = 90 /\ _balances["W"] = 81
    /\ _totalSupply = 900 /\ _allowances["O"]["A"] = MaxUint256
    /\ tokens[1].balances["A"] = 729 /\ tokens[1].totalSupply = 900

\* ---------------------------------------------------------------------
\* The Telegram bot (bot/index.js, bot/handlers/createToken.js,
\* bot/handlers/paymentVerification.js, bot/utils/database.js) for one
\* user. A handler is an async function: between two of its awaits the
\* other handlers and the payment listener run. The calls to Telegram and
\* to the database themselves succeed, except in the runs of the listener
\* that are given a throw.
\* ---------------------------------------------------------------------

\* The steps of the conversation (STEPS); the questions between the network
\* and the preview are one step here.
WAITING_NETWORK == "waiting_network"
WAITING_CONFIRMATION == "waiting_confirmation"
WAITING_PAYER_WALLET == "waiting_payer_wallet"
WAITING_PAYMENT == "waiting_payment"
WAITING_OWNER_WALLET == "waiting_owner_wallet"

\* database.js: the session row of the user (step "" is no row).
getUserSession(b) == b.session
saveUserSession(b, step, data) == [b EXCEPT !.session = [data EXCEPT !.step = step]]
deleteUserSession(b) == [b EXCEPT !.session = NoSession]

\* database.js: the payment rows; a payment id is the index of its row, and
\* getPayment answers null (status "") for an id without a row. startTime
\* and lastCheckedBlock are the variables of the listener of the payment
\* (lastCheckedBlock 0 is max(currentBlock - 100, 0) of its first run).
NoPayment == [status |-> "", tx_hash |-> 0, startTime |-> 0, lastCheckedBlock |-> 0]
getPayment(b, paymentId) ==
    IF paymentId \in 1..Len(b.payments) THEN b.payments[paymentId] ELSE NoPayment
savePayment(b) ==
    [b EXCEPT !.payments = Append(@, [status |-> "pending", tx_hash |-> 0,
                                       startTime |-> b.now,
                                       lastCheckedBlock |-> 0])]
updatePaymentStatus(b, paymentId, status, txHash) ==
    [b EXCEPT !.payments[paymentId].status = status,
              !.payments[paymentId].tx_hash = IF txHash = 0 THEN @ ELSE txHash]

\* database.js: the token rows of the user, the newest last (getUserTokens
\* orders them by deployed_at). paymentId and status are not columns: they
\* record the payment the deploying handler held and the status of its row
\* when createToken was sent.
getUserTokens(b) == b.user_tokens
saveToken(b, paymentId) ==
    [b EXCEPT !.user_tokens = Append(@, [deployed_at |-> b.now,
                                         paymentId |-> paymentId,
                                         status |-> getPayment(b, paymentId).status])]

\* handleCreateToken (createToken.js 504-577): the only place where the
\* rate limit is looked at.
rateLimited(b) ==
    /\ ~b.DISABLE_RATE_LIMIT
    /\ Len(getUserTokens(b)) > 0
    /\ b.now - getUserTokens(b)[Len(getUserTokens(b))].deployed_at
          < RATE_LIMIT_TOKEN_CREATION
handleCreateToken(b) ==
    IF rateLimited(b) THEN b
    ELSE saveUserSession(deleteUserSession(b), WAITING_NETWORK, NoSession)

\* handleTokenCreationFlow, step waiting_confirmation (783-805).
confirm(b) ==
    IF b.TEST_MODE THEN saveUserSession(b, WAITING_OWNER_WALLET, b.session)
    ELSE saveUserSession(b, WAITING_PAYER_WALLET, b.session)

\* handlePaymentRequest (892-949): a pending payment row, its id in the
\* session, and a listener started for it.
handlePaymentRequest(b) ==
    LET saved == savePayment(b)
        paymentId == Len(saved.payments)
        data == [b.session EXCEPT !.paymentId = paymentId]
    IN [saveUserSession(saved, WAITING_PAYMENT, data)
           EXCEPT !.listening = @ \cup {paymentId}]

\* The first of a set of transactions, in the order of the chain.
FirstOf(transactions) == CHOOSE t \in transactions : \A u \in transactions : t <= u

\* checkPayment (paymentVerification.js 40-139), one run of the listener of
\* payment paymentId. transactions are the hashes of the transfers from the
\* payer wallet, from lastCheckedBlock on, that verifyPayment accepts.
\* throws names the call of the run that throws, if any: "database" the
\* first call to the database, "telegram" bot.sendMessage. The catch block
\* schedules the next check whatever was written before the throw.
checkPayment(b, paymentId, transactions, throws) ==
    LET payment == getPayment(b, paymentId)
        stop(c) == [c EXCEPT !.listening = @ \ {paymentId}]
        return(c) == IF throws = "telegram" THEN c ELSE stop(c)
        checked == [b EXCEPT !.payments[paymentId].lastCheckedBlock = b.currentBlock]
        unused == {t \in transactions : t # payment.tx_hash}
        confirmed == updatePaymentStatus(checked, paymentId, "confirmed", FirstOf(unused))
        session == getUserSession(confirmed)
    IN IF throws = "database" THEN b
       ELSE IF b.now - payment.startTime > PAYMENT_TIMEOUT
       THEN return(updatePaymentStatus(b, paymentId, "expired", 0))
       ELSE IF payment.status # "pending" THEN stop(b)
       ELSE IF unused # {}
       THEN IF session.step # ""
            THEN return(saveUserSession(confirmed, WAITING_OWNER_WALLET,
                                        [session EXCEPT !.paymentConfirmed = TRUE]))
            ELSE return(confirmed)
       ELSE checked

\* Variant of the check of handleTokenDeployment that accepts any payment
\* row, whatever its status.
paymentVerified_AnyRow(b, paymentId) ==
    b.TEST_MODE \/ getPayment(b, paymentId) # NoPayment

\* handleTokenDeployment (960-980): outside test mode the payment of the
\* session must exist and be confirmed.
paymentVerified(b, paymentId) ==
    \/ b.TEST_MODE
    \/ LET payment == getPayment(b, paymentId)
       IN ~(payment = NoPayment \/ payment.status # "confirmed")

\* The token the user asked for, owned by the wallet sent as the last answer.
BotRequest ==
    [FactoryArgs("Token", "TKN", 1000, 0, Zero, 0, 0) EXCEPT !.initialOwner = "A"]

\* A step of the bot that sends no transaction: the chain is left alone.
BotStep(b) ==
    /\ bot' = b
    /\ UNCHANGED <<ledgerVars, policyVars, events, last, moves,
                   deployedTokens, creatorTokens, tokens>>

\* /create_token and the "Create Token" button (index.js).
HandleCreateToken ==
    /\ bot' = handleCreateToken(bot)
    /\ UNCHANGED <<ledgerVars, policyVars, events, last, moves,
                   deployedTokens, creatorTokens, tokens>>

\* The network button and the answers up to the preview (index.js network_*
\* callback, createToken.js 608-782, showPreview).
FillForm ==
    /\ getUserSession(bot).step = WAITING_NETWORK
    /\ BotStep(saveUserSession(bot, WAITING_CONFIRMATION, bot.session))

Confirm ==
    /\ getUserSession(bot).step = WAITING_CONFIRMATION
    /\ BotStep(confirm(bot))

\* /cancel (index.js) and the Cancel button of the preview.
Cancel ==
    /\ getUserSession(bot).step # ""
    /\ BotStep(deleteUserSession(bot))

PayerWallet ==
    /\ getUserSession(bot).step = WAITING_PAYER_WALLET
    /\ Len(bot.payments) < MaxPayments
    /\ BotStep(handlePaymentRequest(bot))

\* One run of the listener; whether the user's transfer is on BSC by then
\* is up to the user.
CheckPayment(paymentId, found) ==
    /\ paymentId \in bot.listening
    /\ BotStep(checkPayment(bot, paymentId, IF found THEN {1} ELSE {}, ""))

\* The clock, looked at once per rate-limit window.
Tick ==
    /\ bot.now + RATE_LIMIT_TOKEN_CREATION <= MaxTime
    /\ BotStep([bot EXCEPT !.now = @ + RATE_LIMIT_TOKEN_CREATION])

\* An address arrives in step waiting_owner_wallet (index.js message
\* handler, createToken.js 584-606 and 821-826): the handler reads the
\* session and goes on with the session data it read.
FreeHandler(h) ==
    /\ bot.handlers[h].pc = "idle"
    /\ \A g \in Handlers : g < h => bot.handlers[g].pc # "idle"
OwnerWallet(h) ==
    /\ FreeHandler(h)
    /\ getUserSession(bot).step = WAITING_OWNER_WALLET
    /\ BotStep([bot EXCEPT !.handlers[h] =
                    [pc |-> "verify", paymentId |-> getUserSession(bot).paymentId]])

\* handleTokenDeployment up to the await of deployTokenAfterPayment.
HandlerVerify(h) ==
    /\ bot.handlers[h].pc = "verify"
    /\ IF paymentVerified(bot, bot.handlers[h].paymentId)
       THEN BotStep([bot EXCEPT !.handlers[h].pc = "deploy"])
       ELSE BotStep([bot EXCEPT !.handlers[h] = IdleHandler])

\* deployTokenAfterPayment (paymentVerification.js 155-290): createToken on
\* the factory (blockchain.js deployToken), then the token row.
HandlerDeploy(h) ==
    LET r == createToken(FactoryStorage, "O", BotRequest)
    IN /\ bot.handlers[h].pc = "deploy"
       /\ Len(deployedTokens) < MaxTokens
       /\ r.err = ""
       /\ deployedTokens' = r.deployed
       /\ creatorTokens' = r.creators
       /\ tokens' = r.tokens
       /\ events' = r.events
       /\ bot' = [saveToken(bot, bot.handlers[h].paymentId)
                     EXCEPT !.handlers[h].pc = "cleanup"]
       /\ last' = [op |-> "createToken", who |-> Zero, result |-> "ok", ret |-> r.ret]
       /\ UNCHANGED <<ledgerVars, policyVars, moves>>

\* The deployment throws (gas, RPC): the catch of handleTokenDeployment
\* reports it and leaves the session as it is.
HandlerDeployFails(h) ==
    /\ bot.handlers[h].pc = "deploy"
    /\ BotStep([bot EXCEPT !.handlers[h] = IdleHandler])

\* handleTokenDeployment after the deployment (1050-1052).
HandlerCleanup(h) ==
    /\ bot.handlers[h].pc = "cleanup"
    /\ BotStep([deleteUserSession(bot) EXCEPT !.handlers[h] = IdleHandler])

InitBot ==
    /\ _balances = BlankStorage.bal
    /\ _allowances = BlankStorage.allow
    /\ _totalSupply = 0
    /\ _owner = Zero
    /\ _reflectionClaimed = BlankStorage.claimed
    /\ _totalReflectionDistributed = 0
    /\ burned = 0
    /\ paid = BlankStorage.paid
    /\ events = <<>>
    /\ taxPercent = 0
    /\ taxWallet = Zero
    /\ REFLECTION_PERCENT = 0
    /\ BURN_PERCENT = 0
    /\ HAS_REFLECTION = FALSE
    /\ HAS_BURN = FALSE
    /\ initialSupply = 0
    /\ last = NoCall
    /\ moves = 0
    /\ deployedTokens = <<>>
    /\ creatorTokens = [c \in Holders |-> <<>>]
    /\ tokens = <<>>
    /\ \E testMode \in BOOLEAN, disableRateLimit \in BOOLEAN :
          bot = BotStart(testMode, disableRateLimit)

NextBot ==
    \/ HandleCreateToken
    \/ FillForm
    \/ Confirm
    \/ Cancel
    \/ PayerWallet
    \/ \E paymentId \in 1..MaxPayments, found \in BOOLEAN : CheckPayment(paymentId, found)
    \/ Tick
    \/ \E h \in Handlers : OwnerWallet(h)
    \/ \E h \in Handlers : HandlerVerify(h)
    \/ \E h \in Handlers : HandlerDeploy(h)
    \/ \E h \in Handlers : HandlerDeployFails(h)
    \/ \E h \in Handlers : HandlerCleanup(h)

SpecBot == InitBot /\ [][NextBot]_vars

\* ---------------------------------------------------------------------
\* The fee questions of the conversation (createToken.js 647-782), answer
\* by answer. A percentage answer is the number parseInt reads, -1 for a
\* text that is no number.
\* ---------------------------------------------------------------------
WAITING_TAX_CHOICE == "waiting_tax_choice"
WAITING_TAX_PERCENT == "waiting_tax_percent"
WAITING_TAX_WALLET == "waiting_tax_wallet"
WAITING_REFLECTION_CHOICE == "waiting_reflection_choice"
WAITING_REFLECTION_PERCENT == "waiting_reflection_percent"
WAITING_BURN_CHOICE == "waiting_burn_choice"
WAITING_BURN_PERCENT == "waiting_burn_percent"

\* validators.js isValidTaxPercent, and the range checks of the reflection
\* and burn answers (720-725, 754-759).
isValidTaxPercent(percent) == ~(percent < 0 \/ percent > 100)

\* showPreview (841-882): the total is shown, and the session moves to the
\* confirmation.
showPreview(b, sessionData) == saveUserSession(b, WAITING_CONFIRMATION, sessionData)

\* Step waiting_tax_choice (647-666).
taxChoice(b, yes) ==
    IF yes THEN saveUserSession(b, WAITING_TAX_PERCENT, b.session)
    ELSE saveUserSession(b, WAITING_REFLECTION_CHOICE,
                         [b.session EXCEPT !.taxPercent = 0])

\* Step waiting_tax_percent (667-680).
taxPercentAnswer(b, percent) ==
    IF ~isValidTaxPercent(percent) THEN b
    ELSE saveUserSession(b, WAITING_TAX_WALLET,
                         [b.session EXCEPT !.taxPercent = percent])

\* Step waiting_tax_wallet (681-695), a valid address.
taxWalletAnswer(b) == saveUserSession(b, WAITING_REFLECTION_CHOICE, b.session)

\* Step waiting_reflection_choice (696-718).
reflectionChoice(b, yes) ==
    IF yes THEN saveUserSession(b, WAITING_REFLECTION_PERCENT, b.session)
    ELSE saveUserSession(b, WAITING_BURN_CHOICE,
                         [b.session EXCEPT !.reflectionPercent = 0])

\* Step waiting_reflection_percent (719-740).
reflectionPercentAnswer(b, reflectionPercent) ==
    IF reflectionPercent < 0 \/ reflectionPercent > 100 THEN b
    ELSE saveUserSession(b, WAITING_BURN_CHOICE,
                         [b.session EXCEPT !.reflectionPercent = reflectionPercent])

\* Step waiting_burn_choice (741-752).
burnChoice(b, yes) ==
    IF yes THEN saveUserSession(b, WAITING_BURN_PERCENT, b.session)
    ELSE showPreview(b, [b.session EXCEPT !.burnPercent = 0])

\* Step waiting_burn_percent (753-782): the only place where the total of
\* the three percentages is checked.
burnPercentAnswer(b, burnPercent) ==
    LET sessionData == [b.session EXCEPT !.burnPercent = burnPercent]
        totalFees == sessionData.taxPercent + sessionData.reflectionPercent + burnPercent
    IN IF burnPercent < 0 \/ burnPercent > 100 THEN b
       ELSE IF totalFees > 100
            THEN saveUserSession(b, WAITING_BURN_PERCENT, sessionData)
            ELSE showPreview(b, sessionData)

\* The percentages a user answers: no number, 0, two that add up to 100,
\* the largest accepted and one beyond it.
PercentAnswers == {-1, 0, 40, 60, 100, 101}

\* The network button and the name, symbol and supply answers (index.js
\* network_* callback, createToken.js 608-646).
BasicAnswers ==
    /\ getUserSession(bot).step = WAITING_NETWORK
    /\ BotStep(saveUserSession(bot, WAITING_TAX_CHOICE, bot.session))

TaxChoice(yes) ==
    /\ getUserSession(bot).step = WAITING_TAX_CHOICE
    /\ BotStep(taxChoice(bot, yes))

TaxPercent(percent) ==
    /\ getUserSession(bot).step = WAITING_TAX_PERCENT
    /\ BotStep(taxPercentAnswer(bot, percent))

TaxWallet ==
    /\ getUserSession(bot).step = WAITING_TAX_WALLET
    /\ BotStep(taxWalletAnswer(bot))

ReflectionChoice(yes) ==
    /\ getUserSession(bot).step = WAITING_REFLECTION_CHOICE
    /\ BotStep(reflectionChoice(bot, yes))

ReflectionPercent(percent) ==
    /\ getUserSession(bot).step = WAITING_REFLECTION_PERCENT
    /\ BotStep(reflectionPercentAnswer(bot, percent))

BurnChoice(yes) ==
    /\ getUserSession(bot).step = WAITING_BURN_CHOICE
    /\ BotStep(burnChoice(bot, yes))

BurnPercent(percent) ==
    /\ getUserSession(bot).step = WAITING_BURN_PERCENT
    /\ BotStep(burnPercentAnswer(bot, percent))

NextForm ==
    \/ HandleCreateToken
    \/ BasicAnswers
    \/ \E yes \in BOOLEAN : TaxChoice(yes)
    \/ \E percent \in PercentAnswers : TaxPercent(percent)
    \/ TaxWallet
    \/ \E yes \in BOOLEAN : ReflectionChoice(yes)
    \/ \E percent \in PercentAnswers : ReflectionPercent(percent)
    \/ \E yes \in BOOLEAN : BurnChoice(yes)
    \/ \E percent \in PercentAnswers : BurnPercent(percent)

SpecForm == InitBot /\ [][NextForm]_vars

\* ---------------------------------------------------------------------
\* The payment listeners with the chain they watch and the calls that may
\* throw. The payer wallet is the one wallet of the user; block k of BSC,
\* k >= 1, holds the k-th transfer of the fee from it to the payment wallet,
\* with transaction hash k.
\* ---------------------------------------------------------------------
MaxBlock == 2

\* The user sends the fee once more.
UsdtTransfer ==
    /\ bot.currentBlock < MaxBlock
    /\ BotStep([bot EXCEPT !.currentBlock = @ + 1])

\* getRecentTransactions(PAYMENT_WALLET_BSC, lastCheckedBlock) filtered by
\* the payer wallet and by verifyPayment (paymentVerification.js 58-92).
matchingTxs(b, paymentId) ==
    {t \in 1..b.currentBlock : t >= getPayment(b, paymentId).lastCheckedBlock}

\* The calls of a run that may throw ("" is a run without a throw).
Throws == {"", "database", "telegram"}

\* A run of the listener of a payment, started by startPaymentListener or
\* by the setTimeout of the run before.
ListenerRun(paymentId, throws) ==
    /\ paymentId \in bot.listening
    /\ BotStep(checkPayment(bot, paymentId, matchingTxs(bot, paymentId), throws))

NextListener ==
    \/ HandleCreateToken
    \/ FillForm
    \/ Confirm
    \/ Cancel
    \/ PayerWallet
    \/ UsdtTransfer
    \/ \E paymentId \in 1..MaxPayments, throws \in Throws : ListenerRun(paymentId, throws)
    \/ Tick

SpecListener == InitBot /\ [][NextListener]_vars

C30_RateLimit ==
    ~bot.DISABLE_RATE_LIMIT =>
        \A i, j \in 1..Len(bot.user_tokens) :
            i < j => bot.user_tokens[j].deployed_at - bot.user_tokens[i].deployed_at
                        >= RATE_LIMIT_TOKEN_CREATION

\* C33: in every reachable state the entitlement balance * reserve / supply
\* of every account is at most the reserve (no account holds more than the
\* supply), so no claim fails for lack of reserve funds: a claim never ends
\* with the balance error of the reserve, a successful claim pays at most
\* the reserve, and the reserve stays non-negative.
C33_EntitlementWithinReserve ==
    /\ [](/\ _balances[This] >= 0
          /\ \A h \in Accounts :
                /\ _balances[h] <= _totalSupply
                /\ _totalSupply > 0 =>
                      (_balances[h] * _balances[This]) \div _totalSupply
                         <= _balances[This])
    /\ [][last'.op = "claim" =>
            /\ last'.result # "ERC20: transfer amount exceeds balance"
            /\ last'.result = "ok" =>
                  /\ last'.ret <= _balances[This]
                  /\ _balances'[This] = _balances[This] - last'.ret]_vars

\* C33 witness: a claim was paid out of a reserve that could not have paid
\* the claimant's whole balance.
C33_Witness ==
    /\ last.op = "claim" /\ last.result = "ok" /\ last.ret > 0
    /\ _balances[last.who] - last.ret > _balances[This] + last.ret

\* C34: in every reachable state the mark _reflectionClaimed of every
\* holder equals the sum of the amounts the successful claims of that
\* holder have paid (paid[h]): each claim pays the entitlement minus the
\* mark and then sets the mark to the entitlement.
C34_MarkIsTotalPaid ==
    \A h \in Recipients : _reflectionClaimed[h] = paid[h]

\* C34 witness: two claims have paid the tax wallet 44 and then 38; its mark
\* is their sum.
C34_Witness ==
    /\ last.op = "claim" /\ last.result = "ok" /\ last.ret = 38
    /\ paid[last.who] = 82 /\ _reflectionClaimed[last.who] = 82

\* C35: in contracts/SecureToken.sol the contract's own balance is in every
\* reachable state at least the sum of the queued reflection of all
\* accounts; a claim of a holder with a queue > 0 therefore succeeds, pays
\* exactly the queue out of the contract's balance and clears it, a claim
\* right after it fails, and a holder with an empty queue cannot claim.
C35_QueuedReflectionBacked ==
    /\ [](LET tk == tokens[1]
          IN /\ tk.balances[This] >= SumOver(tk._reflectionBalance, Recipients)
             /\ \A h \in Holders :
                   LET pending == tk._reflectionBalance[h]
                       q == SecureToken_claimReflectionRewards(tk, h)
                       again == SecureToken_claimReflectionRewards(SecureWritten(tk, q), h)
                   IN IF pending > 0
                      THEN /\ q.err = "" /\ q.ret = pending
                           /\ q.queued = [tk._reflectionBalance EXCEPT ![h] = 0]
                           /\ q.bal = Credit(Credit(tk.balances, This, 0 - pending),
                                             h, pending)
                           /\ q.ts = tk.totalSupply
                           /\ again.err = "No reflection rewards to claim"
                      ELSE q.err # "")
    /\ [][(last'.op = "claim" /\ last'.result2 = "ok") =>
             /\ last'.ret2 = tokens[1]._reflectionBalance[last'.who]
             /\ last'.ret2 > 0
             /\ tokens'[1]._reflectionBalance[last'.who] = 0
             /\ tokens'[1].balances[This] = tokens[1].balances[This] - last'.ret2]_vars

\* C35 witness: under 10/10/10 the owner sent 1000 to A, 90 were queued for
\* A, and A's claim moved them out of the contract: A holds 729 + 90.
C35_Witness ==
    /\ last.op = "claim" /\ last.result2 = "ok" /\ last.who = "A"
    /\ last.ret2 = 90
    /\ tokens[1]._reflectionBalance["A"] = 0
    /\ tokens[1].balances["A"] = 819 /\ tokens[1].balances[This] = 0

\* C36: transferFrom(from, to, amount) by a spender whose allowance from
\* `from` is below amount fails with the allowance error, and a failed
\* transferFrom changes no state; a successful one lowers a finite allowance
\* by exactly amount, the amount before the fees, leaves an unlimited
\* allowance (the largest uint256) as it is, and changes no other allowance.
C36_AllowanceSpent ==
    [][\A sp \in AllowanceSpenders, f \in AllowanceOwners, a \in AllowanceAmounts :
          TransferFrom(sp, f, "A", a) =>
             /\ _allowances[f][sp] < a =>
                   last'.result = "ERC20: insufficient allowance"
             /\ last'.result # "ok" => UNCHANGED <<ledgerVars, policyVars>>
             /\ last'.result = "ok" =>
                   /\ _allowances[f][sp] >= a
                   /\ _allowances' = Spent(_allowances, f, sp, a)
                   /\ _allowances[f][sp] # MaxUint256 =>
                         _allowances'[f][sp] = _allowances[f][sp] - a
                   /\ _allowances[f][sp] = MaxUint256 =>
                         _allowances'[f][sp] = MaxUint256]_vars

\* C36 witness: under 10/10/10 A spent 400 of an allowance of 600 from the
\* owner and received 292 of them; 200 are left, and the unlimited allowance
\* of W is untouched.
C36_Witness ==
    /\ last.op = "transferFrom" /\ last.result = "ok"
    /\ taxPercent = 10 /\ REFLECTION_PERCENT = 10 /\ BURN_PERCENT = 10
    /\ _allowances["O"]["A"] = 200 /\ _allowances["O"]["W"] = MaxUint256
    /\ _balances["A"] = 292 /\ _balances["O"] = 600

\* C32: a session in the confirmation step never holds a tax, a reflection
\* and a burn percentage that add up to more than 100.
C32_FeesChecked ==
    getUserSession(bot).step = WAITING_CONFIRMATION =>
        getUserSession(bot).taxPercent + getUserSession(bot).reflectionPercent
           + getUserSession(bot).burnPercent <= 100

\* C38: outside test mode no two deployed tokens of the bot were deployed
\* for the same payment: each payment leads to at most one deployment.
C38_OneDeploymentPerPayment ==
    ~bot.TEST_MODE =>
        \A i, j \in 1..Len(bot.user_tokens) :
            i < j => bot.user_tokens[i].paymentId # bot.user_tokens[j].paymentId

\* C31: the listener of a payment stops at the run that marks the payment
\* confirmed or expired: a payment that is confirmed or expired has no
\* further check scheduled.
C31_ListenerStops ==
    \A paymentId \in 1..Len(bot.payments) :
        getPayment(bot, paymentId).status \in {"confirmed", "expired"} =>
            paymentId \notin bot.listening

\* C37: the status of a payment is monotone: a confirmed payment stays
\* confirmed and an expired payment stays expired, whatever a run of the
\* listener throws.
C37_StatusMonotone ==
    [][\A paymentId \in 1..Len(bot.payments) :
          getPayment(bot, paymentId).status \in {"confirmed", "expired"} =>
              getPayment(bot', paymentId).status = getPayment(bot, paymentId).status]_vars

\* C39: one transfer confirms at most one payment: no two confirmed
\* payments carry the same transaction hash.
C39_OnePaymentPerTransfer ==
    \A p, q \in 1..Len(bot.payments) :
        (/\ p < q
         /\ getPayment(bot, p).status = "confirmed"
         /\ getPayment(bot, q).status = "confirmed")
            => getPayment(bot, p).tx_hash # getPayment(bot, q).tx_hash

====
